---- MODULE Spec2Model ----
(***************************************************************************)
(* Model of the orchestration engine of the reddit crawler:                *)
(*   - SchedulerService (src/core/src/scheduler/scheduler_service.py):     *)
(*     the job lock, the in-flight flag and the run timestamps, under      *)
(*     interleaved scheduled and manual triggers (specification            *)
(*     SchedSpec);                                                         *)
(*   - PostLifecycleService, ActionValidator, PostRepository and           *)
(*     SQLAlchemyStorage, called in any order and under database faults    *)
(*     on one post of the posts table (specification Spec);                *)
(*   - the posts table under the pipeline's inserts, the two sweeps, the   *)
(*     cleanup of the oldest posts and the clock (specification            *)
(*     StoreSpec), and the cleanup under its own faults (CleanupSpec);     *)
(*   - Deduplicator on one batch (DedupSpec), SetKeywordMatcher under      *)
(*     interleaved reloads and calls of match() (MatchSpec), and           *)
(*     KeywordFilter on one list of posts (FilterSpec).                    *)
(* The post_status_logs table is append-only and never read by the code    *)
(* modelled here: it is kept as the number of records per post, and the    *)
(* records a call adds are kept with the record of that call.              *)
(***************************************************************************)
EXTENDS Integers, Sequences, FiniteSets, TLC

VARIABLES
    \* ---- SchedulerService ----
    now,              \* the wall clock, datetime.now()
    scheduler_running,\* self.scheduler.running
    job_lock,         \* self._job_lock is held
    job_running,      \* self._job_running
    last_run_time,    \* self._last_run_time
    next_run_time,    \* self._next_run_time
    trigger_time,     \* APScheduler's own next fire time of job crawl_reddit_posts
    pc,               \* position of each caller of _run_crawler_sync
    sweeps,           \* the two housekeeping jobs: state and next fire time
    shutdown,         \* position of the caller of shutdown()
    exc,              \* the exception the pipeline raised in this execution
    result,           \* the dict the call returned
    \* ---- posts / post_status_logs tables and the last repository call ----
    posts,            \* committed rows of table posts, by reddit_post_id
    status_logs,      \* per row id: how many rows of post_status_logs have this post_id
    next_id,          \* the next primary key of table posts
    transitions_ok,   \* per row id: how many transition_status calls returned True
    last,             \* the last call made on the repository/lifecycle layer
    \* ---- Deduplicator ----
    existing_post_ids,   \* self.existing_post_ids
    existing_permalinks, \* self.existing_permalinks
    batch,               \* the list passed to filter_duplicates
    unique_posts,        \* the lists filter_duplicates has returned
    \* ---- keywords table, SetKeywordMatcher, KeywordFilter ----
    keywords_table,      \* the enabled rows of table keywords, by type
    primary_keywords,    \* self._primary_keywords, with the dict it was taken from
    secondary_keywords,  \* self._secondary_keywords, with the dict it was taken from
    reload_pc,           \* position of the thread in reload()
    keywords,            \* reload()'s local: the dict get_all_keywords returned
    match_pc,            \* position of the thread in match()
    match_text,          \* match()'s argument
    matched_primary,     \* match()'s local, with the dict of the set it iterated
    match_result,        \* the MatchResult match() returned
    filter_input,        \* the list passed to filter_posts
    filtered,            \* the lists filter_posts has returned
    \* ---- CrawlerPipeline.run under SchedulerService._run_crawler_sync ----
    crawl,               \* the position in the run and the run's locals
    \* ---- callers at work at the same time, each in a session of its own ----
    sessions             \* per caller: the position in its call and its locals

\* the housekeeping jobs on the executor and the call of shutdown()
execVars  == <<sweeps, shutdown>>
schedVars == <<now, scheduler_running, job_lock, job_running, last_run_time,
               next_run_time, trigger_time, pc, exc, result, execVars>>
lifeVars  == <<posts, status_logs, next_id, transitions_ok, last>>
dedupVars == <<existing_post_ids, existing_permalinks, batch, unique_posts>>
matchVars == <<keywords_table, primary_keywords, secondary_keywords, reload_pc,
               keywords, match_pc, match_text, matched_primary,
               match_result>>
filterVars == <<filter_input, filtered>>
\* the pipeline's variables and the sessions of the concurrent callers
pipeVars  == <<dedupVars, matchVars, filterVars, crawl, sessions>>
vars      == <<schedVars, lifeVars, pipeVars>>
\* the scheduler's variables but the clock
schedQuiet == <<scheduler_running, job_lock, job_running, last_run_time,
                next_run_time, trigger_time, pc, exc, result, execVars>>
\* what the lifecycle layer and the posts table never touch: the scheduler's
\* variables but the clock, and the variables of the pipeline
schedRest == <<schedQuiet, pipeVars>>

(***************************************************************************)
(* Bounds of the model.                                                    *)
(***************************************************************************)
MaxNow == 3          \* the clock runs 1..MaxNow
MaxManual == 2       \* concurrent callers of the manual trigger endpoint
IntervalHours == 2   \* CRAWLER_INTERVAL_HOURS as configured (in clock ticks)

NoTime == 0          \* Optional[datetime] = None

SchedThread == 0                       \* the APScheduler executor's worker
Threads == {SchedThread} \cup (1..MaxManual)

\* str(e) of what CrawlerPipeline() or pipeline.run() can raise
Errors == {"CrawlerPipeline() failed", "Pipeline failed"}

\* the dict a call returns, by its status and error entries
NoResult == [status |-> "none", error |-> ""]

\* the housekeeping jobs start() adds, by their ids, and their intervals of
\* 24 and 6 hours in clock ticks of 6 hours
SweepJobs == {"auto_expire_pending", "auto_unassign_assigned"}
SweepHours == [j \in SweepJobs |->
                 IF j = "auto_expire_pending" THEN 4 ELSE 1]

\* a job not yet added to the scheduler
NoJob == [state |-> "idle", next |-> NoTime]

\* no call of shutdown() yet
NoShutdown == [pc |-> "idle", timed_out |-> FALSE]

\* positions between the successful acquire and the release of the job lock
InFlight == {"locked", "started", "ran_ok", "raised", "finally", "release"}

(***************************************************************************)
(* SchedulerService                                                        *)
(***************************************************************************)
SchedInit ==
    /\ now = 1
    /\ scheduler_running = FALSE
    /\ job_lock = FALSE
    /\ job_running = FALSE
    /\ last_run_time = NoTime
    /\ next_run_time = NoTime
    /\ trigger_time = NoTime
    /\ pc = [t \in Threads |-> "idle"]
    /\ exc = [t \in Threads |-> ""]
    /\ result = [t \in Threads |-> NoResult]
    /\ sweeps = [j \in SweepJobs |-> NoJob]
    /\ shutdown = NoShutdown

\* start(): adds the three interval jobs and computes the next run time
Start ==
    /\ ~scheduler_running
    /\ scheduler_running' = TRUE
    /\ trigger_time' = now + IntervalHours
    /\ next_run_time' = now + IntervalHours
    /\ sweeps' = [j \in SweepJobs |->
                    [state |-> "idle", next |-> now + SweepHours[j]]]
    /\ UNCHANGED <<now, job_lock, job_running, last_run_time, pc, exc, result,
                   shutdown>>
    /\ UNCHANGED <<lifeVars, pipeVars>>

\* faulty variant: the guard reads the in-flight flag instead of acquiring the lock
AcquireByFlag(t) ==
    IF ~job_running
    THEN /\ job_lock' = TRUE
         /\ pc' = [pc EXCEPT ![t] = "locked"]
         /\ result' = [result EXCEPT ![t] = NoResult]
         /\ UNCHANGED <<job_running, last_run_time, next_run_time>>
    ELSE /\ pc' = [pc EXCEPT ![t] = "returned"]
         /\ result' = [result EXCEPT ![t] =
                          [NoResult EXCEPT !.status = "skipped"]]
         /\ UNCHANGED <<job_lock, job_running, last_run_time, next_run_time>>

\* faulty variant: the acquisition sits inside the try block, so the skip path runs the
\* finally clause as well
AcquireInsideTry(t) ==
    IF ~job_lock
    THEN /\ job_lock' = TRUE
         /\ pc' = [pc EXCEPT ![t] = "locked"]
         /\ result' = [result EXCEPT ![t] = NoResult]
         /\ UNCHANGED <<job_running, last_run_time, next_run_time>>
    ELSE /\ pc' = [pc EXCEPT ![t] = "returned"]
         /\ result' = [result EXCEPT ![t] =
                          [NoResult EXCEPT !.status = "skipped"]]
         /\ job_running' = FALSE
         /\ job_lock' = FALSE
         /\ UNCHANGED <<last_run_time, next_run_time>>

\* self._job_lock.acquire(blocking=False) and the early return of the skip result
Acquire(t) ==
    IF ~job_lock
    THEN /\ job_lock' = TRUE
         /\ pc' = [pc EXCEPT ![t] = "locked"]
         /\ result' = [result EXCEPT ![t] = NoResult]
         /\ UNCHANGED <<job_running, last_run_time, next_run_time>>
    ELSE /\ pc' = [pc EXCEPT ![t] = "returned"]
         /\ result' = [result EXCEPT ![t] =
                          [NoResult EXCEPT !.status = "skipped"]]
         /\ UNCHANGED <<job_lock, job_running, last_run_time, next_run_time>>

\* the interval trigger fires _run_crawler_sync on the executor's worker
ScheduledTrigger ==
    /\ scheduler_running
    /\ pc[SchedThread] = "idle"
    /\ \A j \in SweepJobs : sweeps[j].state # "running"
    /\ trigger_time # NoTime /\ now >= trigger_time
    /\ trigger_time' = trigger_time + IntervalHours
    /\ Acquire(SchedThread)
    /\ UNCHANGED <<now, scheduler_running, exc>>
    /\ UNCHANGED <<execVars, lifeVars, pipeVars>>

\* run_crawler_job(): the manual trigger runs _run_crawler_sync in the loop's executor
run_crawler_job(t) ==
    /\ t # SchedThread
    /\ pc[t] = "idle"
    /\ Acquire(t)
    /\ UNCHANGED <<now, scheduler_running, trigger_time, exc>>
    /\ UNCHANGED <<execVars, lifeVars, pipeVars>>

\* self._job_running = True; self._last_run_time = datetime.now()
MarkRunning(t) ==
    /\ pc[t] = "locked"
    /\ job_running' = TRUE
    /\ last_run_time' = now
    /\ pc' = [pc EXCEPT ![t] = "started"]
    /\ UNCHANGED <<now, scheduler_running, job_lock, next_run_time,
                   trigger_time, exc, result>>
    /\ UNCHANGED <<execVars, lifeVars, pipeVars>>

\* pipeline = CrawlerPipeline(); results = pipeline.run()
RunPipeline(t) ==
    /\ pc[t] = "started"
    /\ \/ /\ pc' = [pc EXCEPT ![t] = "ran_ok"]
          /\ exc' = [exc EXCEPT ![t] = ""]
       \/ \E e \in Errors :
             /\ pc' = [pc EXCEPT ![t] = "raised"]
             /\ exc' = [exc EXCEPT ![t] = e]
    /\ UNCHANGED <<now, scheduler_running, job_lock, job_running, last_run_time,
                   next_run_time, trigger_time, result>>
    /\ UNCHANGED <<execVars, lifeVars, pipeVars>>

\* the success path: next run time and the result dict
OnSuccess(t) ==
    /\ pc[t] = "ran_ok"
    /\ next_run_time' = now + IntervalHours
    /\ result' = [result EXCEPT ![t] =
                    [status |-> "success", error |-> ""]]
    /\ pc' = [pc EXCEPT ![t] = "finally"]
    /\ UNCHANGED <<now, scheduler_running, job_lock, job_running, last_run_time,
                   trigger_time, exc>>
    /\ UNCHANGED <<execVars, lifeVars, pipeVars>>

\* except Exception as e: next run time and the failed result dict
OnException(t) ==
    /\ pc[t] = "raised"
    /\ next_run_time' = now + IntervalHours
    /\ result' = [result EXCEPT ![t] =
                    [status |-> "failed", error |-> exc[t]]]
    /\ exc' = [exc EXCEPT ![t] = ""]
    /\ pc' = [pc EXCEPT ![t] = "finally"]
    /\ UNCHANGED <<now, scheduler_running, job_lock, job_running, last_run_time,
                   trigger_time>>
    /\ UNCHANGED <<execVars, lifeVars, pipeVars>>

\* faulty variant: the finally clause leaves the in-flight flag as it is
LeaveRunning(t) ==
    /\ pc[t] = "finally"
    /\ pc' = [pc EXCEPT ![t] = "release"]
    /\ UNCHANGED <<now, scheduler_running, job_lock, job_running, last_run_time,
                   next_run_time, trigger_time, exc, result>>
    /\ UNCHANGED <<execVars, lifeVars, pipeVars>>

\* finally: self._job_running = False
ClearRunning(t) ==
    /\ pc[t] = "finally"
    /\ job_running' = FALSE
    /\ pc' = [pc EXCEPT ![t] = "release"]
    /\ UNCHANGED <<now, scheduler_running, job_lock, last_run_time,
                   next_run_time, trigger_time, exc, result>>
    /\ UNCHANGED <<execVars, lifeVars, pipeVars>>

\* faulty variant: the lock is released on the success path only
ReleaseOnSuccessOnly(t) ==
    /\ pc[t] = "release"
    /\ job_lock' = (result[t].status # "success")
    /\ pc' = [pc EXCEPT ![t] = "returned"]
    /\ UNCHANGED <<now, scheduler_running, job_running, last_run_time,
                   next_run_time, trigger_time, exc, result>>
    /\ UNCHANGED <<execVars, lifeVars, pipeVars>>

\* finally: self._job_lock.release(), then the return
Release(t) ==
    /\ pc[t] = "release"
    /\ job_lock' = FALSE
    /\ pc' = [pc EXCEPT ![t] = "returned"]
    /\ UNCHANGED <<now, scheduler_running, job_running, last_run_time,
                   next_run_time, trigger_time, exc, result>>
    /\ UNCHANGED <<execVars, lifeVars, pipeVars>>

\* the caller takes its result; the thread is free for the next trigger
Returned(t) ==
    /\ pc[t] = "returned"
    /\ pc' = [pc EXCEPT ![t] = "idle"]
    /\ result' = [result EXCEPT ![t] = NoResult]
    /\ UNCHANGED <<now, scheduler_running, job_lock, job_running, last_run_time,
                   next_run_time, trigger_time, exc>>
    /\ UNCHANGED <<execVars, lifeVars, pipeVars>>

Tick ==
    /\ now < MaxNow
    /\ now' = now + 1
    /\ UNCHANGED <<scheduler_running, job_lock, job_running, last_run_time,
                   next_run_time, trigger_time, pc, exc, result>>
    /\ UNCHANGED <<execVars, lifeVars, pipeVars>>

\* the single worker of the scheduler's ThreadPoolExecutor(max_workers=1) is
\* taken by the crawl job or by a housekeeping job
WorkerBusy ==
    \/ pc[SchedThread] # "idle"
    \/ \E j \in SweepJobs : sweeps[j].state = "running"

\* the interval trigger of a housekeeping job is due: the run is skipped when
\* an instance of the job is submitted already (max_instances = 1), else it
\* is submitted to the executor, whose worker takes it when it is free
SweepDue(j) ==
    /\ scheduler_running
    /\ sweeps[j].next # NoTime /\ now >= sweeps[j].next
    /\ sweeps' = [sweeps EXCEPT
                    ![j].next = @ + SweepHours[j],
                    ![j].state = IF @ # "idle" THEN @
                                 ELSE IF WorkerBusy THEN "queued"
                                 ELSE "running"]
    /\ UNCHANGED <<now, scheduler_running, job_lock, job_running, last_run_time,
                   next_run_time, trigger_time, pc, exc, result, shutdown>>
    /\ UNCHANGED <<lifeVars, pipeVars>>

\* the worker is free and takes a submitted housekeeping job
SweepStart(j) ==
    /\ sweeps[j].state = "queued"
    /\ ~WorkerBusy
    /\ sweeps' = [sweeps EXCEPT ![j].state = "running"]
    /\ UNCHANGED <<now, scheduler_running, job_lock, job_running, last_run_time,
                   next_run_time, trigger_time, pc, exc, result, shutdown>>
    /\ UNCHANGED <<lifeVars, pipeVars>>

\* shutdown(wait=True) on a running scheduler (on a stopped one it returns at
\* once): `if wait and self._job_running`
ShutdownEnter ==
    /\ scheduler_running
    /\ shutdown.pc \in {"idle", "returned"}
    /\ shutdown' = [pc |-> IF job_running THEN "waiting" ELSE "teardown",
                    timed_out |-> FALSE]
    /\ UNCHANGED <<now, scheduler_running, job_lock, job_running, last_run_time,
                   next_run_time, trigger_time, pc, exc, result, sweeps>>
    /\ UNCHANGED <<lifeVars, pipeVars>>

\* the end of the loop `while self._job_running`: the flag is down, or more
\* than 300 seconds have elapsed
ShutdownWait(elapsed) ==
    /\ shutdown.pc = "waiting"
    /\ ~job_running \/ elapsed
    /\ shutdown' = [pc |-> "teardown", timed_out |-> job_running]
    /\ UNCHANGED <<now, scheduler_running, job_lock, job_running, last_run_time,
                   next_run_time, trigger_time, pc, exc, result, sweeps>>
    /\ UNCHANGED <<lifeVars, pipeVars>>

\* self.scheduler.shutdown(wait=True): the scheduler is stopped
ShutdownScheduler ==
    /\ shutdown.pc = "teardown"
    /\ scheduler_running' = FALSE
    /\ shutdown' = [shutdown EXCEPT !.pc = "joining"]
    /\ UNCHANGED <<now, job_lock, job_running, last_run_time,
                   next_run_time, trigger_time, pc, exc, result, sweeps>>
    /\ UNCHANGED <<lifeVars, pipeVars>>

\* ... and its executor is joined, then shutdown() returns
ShutdownReturn ==
    /\ shutdown.pc = "joining"
    /\ ~WorkerBusy
    /\ \A j \in SweepJobs : sweeps[j].state = "idle"
    /\ shutdown' = [shutdown EXCEPT !.pc = "returned"]
    /\ UNCHANGED <<now, scheduler_running, job_lock, job_running, last_run_time,
                   next_run_time, trigger_time, pc, exc, result, sweeps>>
    /\ UNCHANGED <<lifeVars, pipeVars>>

\* time passes once the running scheduler has processed the jobs that are
\* due: APScheduler wakes up at the fire time of each job
PromptTick ==
    /\ scheduler_running =>
          /\ trigger_time > now \/ WorkerBusy
          /\ \A j \in SweepJobs : sweeps[j].next > now
    /\ Tick

SchedNext ==
    \/ Start
    \/ ScheduledTrigger
    \/ \E t \in Threads : run_crawler_job(t)
    \/ \E t \in Threads : MarkRunning(t)
    \/ \E t \in Threads : RunPipeline(t)
    \/ \E t \in Threads : OnSuccess(t)
    \/ \E t \in Threads : OnException(t)
    \/ \E t \in Threads : ClearRunning(t)
    \/ \E t \in Threads : Release(t)
    \/ \E t \in Threads : Returned(t)
    \/ Tick

(***************************************************************************)
(* The posts and post_status_logs tables                                   *)
(***************************************************************************)
MaxRowId == 3        \* posts ever inserted (primary keys 1..MaxRowId)
MaxLog == 3          \* successful transition_status calls explored
ExpireDays == 1      \* AUTO_EXPIRE_DAYS as configured (in clock ticks)
UnassignHours == 1   \* AUTO_UNASSIGN_HOURS as configured (in clock ticks)
DB_MAX_POSTS == 1    \* DB_MAX_POSTS as configured

PostIds == {"p1", "p2"}              \* reddit_post_id values
LifePosts == {"p1"}                  \* the post the lifecycle calls are followed on
Workers == {"w1", "w2"}              \* worker identifiers
None == "<None>"                     \* Python's None

\* class PostStatus
PostStatus == {"fetched", "pending", "assigned", "replied", "archived"}

\* status strings passed to transition_status: the five names, one of them in
\* upper case, and a name that is no status
StatusArgs == PostStatus \cup {"PENDING", "in_progress"}

\* status strings of the storage interface: "New status (pending, in_progress,
\* replied)"
StorageStatusArgs == {"pending", "in_progress", "replied"}

\* str.lower() on the strings of the model
Lower(s) == IF s = "PENDING" THEN "pending" ELSE s

\* class PostAction
PostAction == {"view", "assign_to_worker", "reply", "archive", "internal_note",
               "auto_expire", "auto_unassign", "reassign", "reply_again",
               "edit_reply"}

NoPost == [id |-> 0, status |-> "", assigned_to |-> None, fetched_at |-> 0]

Exists(p) == posts[p].id # 0

LogEntry(post, old_status, new_status, changed_by, change_reason) ==
    [post_id |-> post.id, old_status |-> old_status, new_status |-> new_status,
     changed_by |-> changed_by, change_reason |-> change_reason]

\* faulty variant: archived is given a way out
VALID_TRANSITIONS_reopen ==
    [s \in PostStatus |->
        CASE s = "fetched"  -> {"pending"}
          [] s = "pending"  -> {"assigned", "archived"}
          [] s = "assigned" -> {"replied", "pending"}
          [] s = "replied"  -> {"archived"}
          [] s = "archived" -> {"pending"}]

VALID_TRANSITIONS ==
    [s \in PostStatus |->
        CASE s = "fetched"  -> {"pending"}
          [] s = "pending"  -> {"assigned", "archived"}
          [] s = "assigned" -> {"replied", "pending"}
          [] s = "replied"  -> {"archived"}
          [] s = "archived" -> {}]

\* faulty variant: equal names get no pass, they are looked up in the table
validate_transition_table_only(current_status, new_status) ==
    IF Lower(current_status) \notin PostStatus \/ Lower(new_status) \notin PostStatus
    THEN FALSE
    ELSE Lower(new_status) \in VALID_TRANSITIONS[Lower(current_status)]

\* validate_transition: TRUE when it returns True, FALSE when it raises
\* LifecycleException
validate_transition(current_status, new_status) ==
    IF Lower(current_status) \notin PostStatus \/ Lower(new_status) \notin PostStatus
    THEN FALSE
    ELSE IF Lower(current_status) = Lower(new_status)
    THEN TRUE
    ELSE Lower(new_status) \in VALID_TRANSITIONS[Lower(current_status)]

\* results of the calls on a row: what is returned or raised (ret), whether
\* transition_status returned True in it (tr), and the row and the audit
\* records that are committed when the call is over
Raised(post) ==
    [ret |-> "LifecycleException", tr |-> FALSE, post |-> post, logs |-> <<>>]

ReturnedFalse(post) ==
    [ret |-> "False", tr |-> FALSE, post |-> post, logs |-> <<>>]

\* _log_status_change: the entry added to the session, none when building or
\* adding it raised (the exception is swallowed)
log_status_change(post, old_status, new_status, changed_by, change_reason, log_ok) ==
    IF log_ok
    THEN <<LogEntry(post, old_status, Lower(new_status), changed_by, change_reason)>>
    ELSE <<>>

\* transition_status on the session's object `post`: what the call returns or
\* raises, and the row and the audit records its commit writes.  `db_post` is
\* the committed row, which a rollback restores.
transition_status(db_post, post, new_status, changed_by, change_reason, log_ok, commit_ok) ==
    LET old_status == post.status IN
    IF ~validate_transition(old_status, new_status)
    THEN Raised(db_post)
    ELSE IF ~commit_ok
    THEN Raised(db_post)
    ELSE [ret  |-> "True",
          tr   |-> TRUE,
          post |-> [post EXCEPT !.status = Lower(new_status)],
          logs |-> log_status_change(post, old_status, new_status,
                      IF changed_by = None THEN "system" ELSE changed_by,
                      IF change_reason = None THEN "manual" ELSE change_reason,
                      log_ok)]

\* faulty variant: the status guard of assign_post is dropped
assign_post_unguarded(post, assigned_to, changed_by, log_ok, commit_ok) ==
    transition_status(post, [post EXCEPT !.assigned_to = assigned_to], "assigned",
                      IF changed_by = None THEN assigned_to ELSE changed_by,
                      "manual_assign", log_ok, commit_ok)

\* PostLifecycleService.assign_post
assign_post(post, assigned_to, changed_by, log_ok, commit_ok) ==
    IF post.status # "pending"
    THEN Raised(post)
    ELSE transition_status(post, [post EXCEPT !.assigned_to = assigned_to], "assigned",
                           IF changed_by = None THEN assigned_to ELSE changed_by,
                           "manual_assign", log_ok, commit_ok)

\* PostLifecycleService.mark_replied
mark_replied(post, changed_by, log_ok, commit_ok) ==
    IF post.status # "assigned"
    THEN Raised(post)
    ELSE transition_status(post, post, "replied",
                           IF changed_by = None THEN "system" ELSE changed_by,
                           "reply_posted", log_ok, commit_ok)

\* PostLifecycleService.archive_post
archive_post(post, changed_by, log_ok, commit_ok) ==
    IF post.status \notin {"replied", "pending"}
    THEN Raised(post)
    ELSE transition_status(post, post, "archived",
                           IF changed_by = None THEN "system" ELSE changed_by,
                           "manual_archive", log_ok, commit_ok)

\* PostLifecycleService.auto_expire
auto_expire(post, log_ok, commit_ok) ==
    IF post.status # "pending"
    THEN ReturnedFalse(post)
    ELSE transition_status(post, post, "archived", "system", "auto_expire",
                           log_ok, commit_ok)

\* faulty variant: the assignee is not cleared
auto_unassign_keeping_assignee(post, log_ok, commit_ok) ==
    IF post.status # "assigned"
    THEN ReturnedFalse(post)
    ELSE transition_status(post, post, "pending", "system", "auto_unassign",
                           log_ok, commit_ok)

\* PostLifecycleService.auto_unassign
auto_unassign(post, log_ok, commit_ok) ==
    IF post.status # "assigned"
    THEN ReturnedFalse(post)
    ELSE transition_status(post, [post EXCEPT !.assigned_to = None], "pending",
                           "system", "auto_unassign", log_ok, commit_ok)

\* faulty variant: a replied post may be replied to again
ALLOWED_ACTIONS_reply_again(status) ==
    CASE status = "fetched"  -> {"view"}
      [] status = "pending"  -> {"view", "assign_to_worker", "auto_expire"}
      [] status = "assigned" -> {"view", "reply", "auto_unassign"}
      [] status = "replied"  -> {"view", "archive", "internal_note", "reply_again"}
      [] status = "archived" -> {"view"}
      [] OTHER -> {}

\* ActionValidator.ALLOWED_ACTIONS.get(status, set())
ALLOWED_ACTIONS(status) ==
    CASE status = "fetched"  -> {"view"}
      [] status = "pending"  -> {"view", "assign_to_worker", "auto_expire"}
      [] status = "assigned" -> {"view", "reply", "auto_unassign"}
      [] status = "replied"  -> {"view", "archive", "internal_note"}
      [] status = "archived" -> {"view"}
      [] OTHER -> {}

\* ActionValidator.validate_action: TRUE when it returns True, FALSE when it
\* raises ActionException
validate_action(post, action, user) ==
    IF action \notin ALLOWED_ACTIONS(Lower(post.status))
    THEN FALSE
    ELSE IF action = "reply" /\ post.assigned_to # user
    THEN FALSE
    ELSE IF action = "assign_to_worker" /\ post.assigned_to # None
                                        /\ post.assigned_to # user
    THEN FALSE
    ELSE TRUE

\* ActionValidator.BLOCKED_ACTIONS.get(status, set())
BLOCKED_ACTIONS(status) ==
    CASE status = "pending"  -> {"reply", "reassign"}
      [] status = "assigned" -> {"assign_to_worker"}
      [] status = "replied"  -> {"reply_again", "edit_reply"}
      [] status = "archived" -> {"assign_to_worker", "reply", "archive",
                                 "internal_note", "auto_expire", "auto_unassign",
                                 "reassign", "reply_again", "edit_reply"}
      [] OTHER -> {}

NoMessage == [text |-> "", action |-> None, status |-> None, allowed |-> {}]

\* the message of the ActionException validate_action raises, by its wording
\* and the values it is formatted with; NoMessage when the call returns True
ActionException_message(post, action, user) ==
    LET status  == Lower(post.status)
        allowed == ALLOWED_ACTIONS(status)
    IN  IF action \notin allowed
        THEN [text    |-> IF action \in BLOCKED_ACTIONS(status)
                          THEN "is blocked for posts in" ELSE "is not allowed for posts in",
              action  |-> action,
              status  |-> status,
              allowed |-> allowed]
        ELSE IF action = "reply" /\ post.assigned_to # user
        THEN [NoMessage EXCEPT !.text = "Cannot reply to post assigned to another worker"]
        ELSE IF action = "assign_to_worker" /\ post.assigned_to # None
                                            /\ post.assigned_to # user
        THEN [NoMessage EXCEPT !.text = "Cannot reassign"]
        ELSE NoMessage

\* PostRepository.assign_post on the row the query found (NoPost: not found)
PostRepository_assign_post(post, assigned_to, log_ok, commit_ok) ==
    IF post.id = 0
    THEN ReturnedFalse(post)
    ELSE LET r == assign_post(post, assigned_to, assigned_to, log_ok, commit_ok)
         IN  IF r.ret = "True" THEN r ELSE ReturnedFalse(post)

\* PostRepository.mark_replied on the row the query found (NoPost: not found)
PostRepository_mark_replied(post, assigned_to, log_ok, commit_ok) ==
    IF post.id = 0
    THEN ReturnedFalse(post)
    ELSE IF assigned_to # None /\ post.assigned_to # assigned_to
    THEN ReturnedFalse(post)
    ELSE LET r == mark_replied(post,
                               IF assigned_to = None THEN "system" ELSE assigned_to,
                               log_ok, commit_ok)
         IN  IF r.ret = "True" THEN r ELSE ReturnedFalse(post)

\* SQLAlchemyStorage.update_post_status
update_post_status(post, status, assigned_to, log_ok, commit_ok) ==
    IF status = "in_progress" /\ assigned_to # None
    THEN PostRepository_assign_post(post, assigned_to, log_ok, commit_ok)
    ELSE IF status = "replied"
    THEN PostRepository_mark_replied(post, assigned_to, log_ok, commit_ok)
    ELSE IF post.id = 0
    THEN ReturnedFalse(post)
    ELSE IF ~commit_ok
    THEN ReturnedFalse(post)
    ELSE [ret  |-> "True",
          tr   |-> FALSE,
          post |-> [post EXCEPT !.status = status,
                                !.assigned_to = IF assigned_to # None
                                                THEN assigned_to ELSE @],
          logs |-> <<>>]

(***************************************************************************)
(* The calls, each in a session of its own                                 *)
(***************************************************************************)
\* what the database does to a call: nothing, the audit record cannot be built
\* or added to the session, or the commit fails
Faults == {"none", "log_write", "commit"}

RECURSIVE SumOk(_)
SumOk(n) == IF n = 0 THEN 0 ELSE transitions_ok[n] + SumOk(n - 1)

\* successful transitions so far, over all rows
TotalOk == SumOk(MaxRowId)

\* the record of a call: its name, the post and the worker it was given, what
\* it returned or raised, the audit records it added, the number a sweep or a
\* cleanup returned, the limit and the faults a cleanup ran with, and the rows
\* it deleted
NoCall == [op |-> "none", post_id |-> "", user |-> None, ret |-> "",
           logs |-> <<>>, count |-> 0, args |-> <<>>, rows |-> {}]

Call(op, pid, user, ret, logs) ==
    [op |-> op, post_id |-> pid, user |-> user, ret |-> ret, logs |-> logs,
     count |-> 0, args |-> <<>>, rows |-> {}]

LifeInit ==
    /\ posts = [p \in PostIds |-> NoPost]
    /\ status_logs = [i \in 1..MaxRowId |-> 0]
    /\ next_id = 1
    /\ transitions_ok = [i \in 1..MaxRowId |-> 0]
    /\ last = NoCall

\* the commit of the result r of a call on row id: the audit records are
\* inserted and a successful transition is counted
Committed(id, r) ==
    /\ r.tr => TotalOk < MaxLog
    /\ status_logs' = IF r.logs # <<>>
                      THEN [status_logs EXCEPT ![id] = @ + Len(r.logs)]
                      ELSE status_logs
    /\ transitions_ok' = IF r.tr
                         THEN [transitions_ok EXCEPT ![id] = @ + 1]
                         ELSE transitions_ok

\* a call on the row of pid with result r: the commit and the record of the call
RowCall(op, pid, user, r) ==
    /\ Committed(posts[pid].id, r)
    /\ posts' = [posts EXCEPT ![pid] = r.post]
    /\ last' = Call(op, pid, user, r.ret, r.logs)
    /\ UNCHANGED <<next_id, now, schedRest>>

\* faulty variant: reddit_post_id has no unique constraint, so the insert of a
\* stored reddit_post_id goes through
create_post_without_unique(pid, insert_ok, f) ==
    LET row == [id |-> next_id, status |-> "fetched", assigned_to |-> None,
                fetched_at |-> now]
        r   == transition_status(row, row, "pending", "system", "post_created",
                                 f # "log_write", f # "commit")
    IN
    /\ IF ~insert_ok
       THEN /\ last' = Call("create_post", pid, None, "StorageException", <<>>)
            /\ UNCHANGED <<posts, status_logs, next_id, transitions_ok, now>>
       ELSE /\ next_id <= MaxRowId
            /\ Committed(next_id, r)
            /\ posts' = [posts EXCEPT ![pid] = r.post]
            /\ next_id' = next_id + 1
            /\ last' = Call("create_post", pid, None, "created", r.logs)
            /\ UNCHANGED now

\* PostRepository.create_post: what it does to the table
create_post(pid, insert_ok, f) ==
    LET row == [id |-> next_id, status |-> "fetched", assigned_to |-> None,
                fetched_at |-> now]
        r   == transition_status(row, row, "pending", "system", "post_created",
                                 f # "log_write", f # "commit")
    IN
    /\ IF Exists(pid)
       THEN \* IntegrityError: rollback, the existing post is returned
            /\ last' = Call("create_post", pid, None, "existing", <<>>)
            /\ UNCHANGED <<posts, status_logs, next_id, transitions_ok, now>>
       ELSE IF ~insert_ok
       THEN \* the insert's commit failed: rollback, StorageException
            /\ last' = Call("create_post", pid, None, "StorageException", <<>>)
            /\ UNCHANGED <<posts, status_logs, next_id, transitions_ok, now>>
       ELSE \* committed as fetched, then fetched -> pending; a failure of the
            \* transition is logged and swallowed
            /\ next_id <= MaxRowId
            /\ Committed(next_id, r)
            /\ posts' = [posts EXCEPT ![pid] = r.post]
            /\ next_id' = next_id + 1
            /\ last' = Call("create_post", pid, None, "created", r.logs)
            /\ UNCHANGED now

\* PostRepository.create_post, called on its own
CreatePost(pid, insert_ok, f) ==
    /\ create_post(pid, insert_ok, f)
    /\ UNCHANGED schedRest

\* PostLifecycleService.transition_status on a stored post
TransitionStatus(pid, new_status, changed_by, f) ==
    /\ Exists(pid)
    /\ RowCall("transition_status", pid, changed_by,
               transition_status(posts[pid], posts[pid], new_status, changed_by,
                                 None, f # "log_write", f # "commit"))

\* PostLifecycleService.assign_post on a stored post
AssignPost(pid, w, f) ==
    /\ Exists(pid)
    /\ RowCall("assign_post", pid, w,
               assign_post(posts[pid], w, None, f # "log_write", f # "commit"))

\* PostLifecycleService.mark_replied on a stored post
MarkReplied(pid, changed_by, f) ==
    /\ Exists(pid)
    /\ RowCall("mark_replied", pid, changed_by,
               mark_replied(posts[pid], changed_by, f # "log_write", f # "commit"))

\* PostLifecycleService.archive_post on a stored post
ArchivePost(pid, changed_by, f) ==
    /\ Exists(pid)
    /\ RowCall("archive_post", pid, changed_by,
               archive_post(posts[pid], changed_by, f # "log_write", f # "commit"))

\* PostLifecycleService.auto_expire on a stored post
AutoExpire(pid, f) ==
    /\ Exists(pid)
    /\ RowCall("auto_expire", pid, None,
               auto_expire(posts[pid], f # "log_write", f # "commit"))

\* PostLifecycleService.auto_unassign on a stored post
AutoUnassign(pid, f) ==
    /\ Exists(pid)
    /\ RowCall("auto_unassign", pid, None,
               auto_unassign(posts[pid], f # "log_write", f # "commit"))

\* PostRepository.assign_post(reddit_post_id, assigned_to)
RepositoryAssignPost(pid, w, f) ==
    /\ pid \in PostIds
    /\ RowCall("PostRepository.assign_post", pid, w,
               PostRepository_assign_post(posts[pid], w, f # "log_write",
                                          f # "commit"))

\* PostRepository.mark_replied(reddit_post_id, assigned_to=None)
RepositoryMarkReplied(pid, w, f) ==
    /\ pid \in PostIds
    /\ RowCall("PostRepository.mark_replied", pid, w,
               PostRepository_mark_replied(posts[pid], w, f # "log_write",
                                           f # "commit"))

\* SQLAlchemyStorage.update_post_status(post_id, status, assigned_to=None)
UpdatePostStatus(pid, status, w, f) ==
    /\ pid \in PostIds
    /\ RowCall("update_post_status", pid, w,
               update_post_status(posts[pid], status, w, f # "log_write",
                                  f # "commit"))

\* ActionValidator.validate_action on a stored post
ValidateAction(pid, action, user) ==
    /\ Exists(pid)
    /\ last' = Call("validate_action:" \o action, pid, user,
                    IF validate_action(posts[pid], action, user)
                    THEN "True" ELSE "ActionException", <<>>)
    /\ UNCHANGED <<posts, status_logs, next_id, transitions_ok, now>>
    /\ UNCHANGED schedRest

\* the reply of an endpoint after RedditCommenter.post_comment was called on
\* the post: the comment was posted or not, and the row
\* PostRepository.mark_replied leaves, whose False is not looked at
Commented(op, pid, user, comment_ok, f) ==
    IF ~comment_ok
    THEN /\ last' = [Call(op, pid, user, "500", <<>>) EXCEPT !.count = 1]
         /\ UNCHANGED <<posts, status_logs, transitions_ok>>
    ELSE LET r == PostRepository_mark_replied(posts[pid], user,
                                              f # "log_write", f # "commit")
         IN  /\ Committed(posts[pid].id, r)
             /\ posts' = [posts EXCEPT ![pid] = r.post]
             /\ last' = [Call(op, pid, user, "200", r.logs) EXCEPT !.count = 1]

\* POST /posts/{post_id}/reply (fastapi_routes.reply_to_post); count is the
\* number of calls of post_comment
ReplyToPost(pid, worker, comment_ok, f) ==
    /\ IF ~Exists(pid)
       THEN /\ last' = Call("reply_to_post", pid, worker, "404", <<>>)
            /\ UNCHANGED <<posts, status_logs, transitions_ok>>
       ELSE IF posts[pid].assigned_to # worker
       THEN /\ last' = Call("reply_to_post", pid, worker, "403", <<>>)
            /\ UNCHANGED <<posts, status_logs, transitions_ok>>
       ELSE Commented("reply_to_post", pid, worker, comment_ok, f)
    /\ UNCHANGED <<next_id, now, schedRest>>

\* POST posts/comment/ (views.PostCommentView.post)
PostComment(pid, user, comment_ok, f) ==
    /\ IF ~Exists(pid)
       THEN /\ last' = Call("PostCommentView.post", pid, user, "404", <<>>)
            /\ UNCHANGED <<posts, status_logs, transitions_ok>>
       ELSE IF ~validate_action(posts[pid], "reply", user)
       THEN /\ last' = Call("PostCommentView.post", pid, user, "403", <<>>)
            /\ UNCHANGED <<posts, status_logs, transitions_ok>>
       ELSE Commented("PostCommentView.post", pid, user, comment_ok, f)
    /\ UNCHANGED <<next_id, now, schedRest>>

\* POST /posts/{post_id}/assign (fastapi_routes.assign_post): the False of
\* PostRepository.assign_post is answered with 404
AssignPostRoute(pid, worker, f) ==
    LET r == PostRepository_assign_post(posts[pid], worker, f # "log_write",
                                        f # "commit")
    IN  /\ Committed(posts[pid].id, r)
        /\ posts' = [posts EXCEPT ![pid] = r.post]
        /\ last' = Call("assign_post_route", pid, worker,
                        IF r.ret = "True" THEN "200" ELSE "404", r.logs)
        /\ UNCHANGED <<next_id, now, schedRest>>

\* the stored posts
Stored == {p \in PostIds : Exists(p)}

\* the rows the query of the auto-expire sweep returns
Expirable ==
    {p \in Stored : posts[p].status = "pending"
                    /\ posts[p].fetched_at < now - ExpireDays}

\* the rows the query of the auto-unassign sweep returns
Unassignable ==
    {p \in Stored : posts[p].status = "assigned"
                    /\ posts[p].fetched_at < now - UnassignHours}

\* the rows of S in primary-key order (the order the query returns them in)
RECURSIVE ById(_)
ById(S) ==
    IF S = {} THEN <<>>
    ELSE LET p == CHOOSE q \in S : \A o \in S : posts[q].id <= posts[o].id
         IN  <<p>> \o ById(S \ {p})

\* the audit records of the calls R[p], p running over seq
RECURSIVE LogsIn(_, _)
LogsIn(seq, R) ==
    IF seq = <<>> THEN <<>> ELSE R[Head(seq)].logs \o LogsIn(Tail(seq), R)

\* faulty variant: the except clause of the loop ends the loop (break instead
\* of continue), so the rows after the first failing one are not processed
SweepUntilFailure(op, S, R) ==
    LET seq == ById(S)
        failing == {i \in 1..Len(seq) : R[seq[i]].ret = "LifecycleException"}
        reached == {seq[i] : i \in {j \in 1..Len(seq) : \A k \in failing : j < k}}
        moved == {p \in reached : R[p].ret = "True"}
    IN
    /\ TotalOk + Cardinality(moved) <= MaxLog
    /\ posts' = [p \in PostIds |-> IF p \in reached THEN R[p].post ELSE posts[p]]
    /\ status_logs' =
          [i \in 1..MaxRowId |->
              IF \E p \in reached : posts[p].id = i /\ R[p].logs # <<>>
              THEN status_logs[i] + 1 ELSE status_logs[i]]
    /\ transitions_ok' =
          [i \in 1..MaxRowId |->
              IF \E p \in moved : posts[p].id = i
              THEN transitions_ok[i] + 1 ELSE transitions_ok[i]]
    /\ last' = [NoCall EXCEPT !.op = op, !.ret = "count",
                              !.logs = LogsIn(ById(reached), R),
                              !.count = Cardinality(moved),
                              !.args = <<{p \in S : R[p].ret = "LifecycleException"}>>]
    /\ UNCHANGED <<next_id, now>>

\* a sweep over the rows S with per-row results R (the loop of
\* expire_old_pending_posts and unassign_old_assigned_posts): a row whose
\* transition raises is logged and the loop continues; the commits of the rows
\* that moved, and the record of the call with the rows whose transition
\* raised and the number returned
Sweep(op, S, R) ==
    LET moved == {p \in S : R[p].ret = "True"} IN
    /\ TotalOk + Cardinality(moved) <= MaxLog
    /\ posts' = [p \in PostIds |-> IF p \in S THEN R[p].post ELSE posts[p]]
    /\ status_logs' =
          [i \in 1..MaxRowId |->
              IF \E p \in S : posts[p].id = i /\ R[p].logs # <<>>
              THEN status_logs[i] + 1 ELSE status_logs[i]]
    /\ transitions_ok' =
          [i \in 1..MaxRowId |->
              IF \E p \in moved : posts[p].id = i
              THEN transitions_ok[i] + 1 ELSE transitions_ok[i]]
    /\ last' = [NoCall EXCEPT !.op = op, !.ret = "count",
                              !.logs = LogsIn(ById(S), R),
                              !.count = Cardinality(moved),
                              !.args = <<{p \in S : R[p].ret = "LifecycleException"}>>]
    /\ UNCHANGED <<next_id, now>>

\* faulty variant: the query has no age condition
ExpireAllPendingPosts(log_fails, commit_fails) ==
    LET old_posts == {p \in PostIds : Exists(p) /\ posts[p].status = "pending"}
    IN  /\ Sweep("expire_old_pending_posts", old_posts,
                 [p \in old_posts |->
                    auto_expire(posts[p], p \notin log_fails, p \notin commit_fails)])
        /\ UNCHANGED schedRest

\* AutoExpireService.expire_old_pending_posts; the rows in
\* log_fails and commit_fails meet a failing log write, resp. a failing
\* commit; a transition that raises is logged and the loop continues
expire_old_pending_posts(log_fails, commit_fails) ==
    LET cutoff_date == now - ExpireDays
        old_posts == {p \in PostIds : /\ Exists(p)
                                      /\ posts[p].status = "pending"
                                      /\ posts[p].fetched_at < cutoff_date}
    IN  Sweep("expire_old_pending_posts", old_posts,
              [p \in old_posts |->
                  auto_expire(posts[p], p \notin log_fails, p \notin commit_fails)])

\* the sweep of the daily job, called on its own
ExpireOldPendingPosts(log_fails, commit_fails) ==
    /\ expire_old_pending_posts(log_fails, commit_fails)
    /\ UNCHANGED schedRest

\* the query of unassign_old_assigned_posts: the assigned posts fetched before
\* the cutoff time
old_assigned_posts ==
    LET cutoff_time == now - UnassignHours
    IN  {p \in PostIds : /\ Exists(p)
                         /\ posts[p].status = "assigned"
                         /\ posts[p].fetched_at < cutoff_time}

\* AutoUnassignService.unassign_old_assigned_posts
unassign_old_assigned_posts(log_fails, commit_fails) ==
    LET old_posts == old_assigned_posts
    IN  Sweep("unassign_old_assigned_posts", old_posts,
              [p \in old_posts |->
                  auto_unassign(posts[p], p \notin log_fails, p \notin commit_fails)])

\* the sweep of the six-hourly job, called on its own
UnassignOldAssignedPosts(log_fails, commit_fails) ==
    /\ unassign_old_assigned_posts(log_fails, commit_fails)
    /\ UNCHANGED schedRest

\* _run_auto_expire and _run_auto_unassign: the sweep of the service, whose
\* exceptions are logged
RunSweep(j) ==
    /\ sweeps[j].state = "running"
    /\ IF j = "auto_expire_pending"
       THEN expire_old_pending_posts({}, {})
       ELSE unassign_old_assigned_posts({}, {})
    /\ sweeps' = [sweeps EXCEPT ![j].state = "idle"]
    /\ UNCHANGED <<scheduler_running, job_lock, job_running, last_run_time,
                   next_run_time, trigger_time, pc, exc, result, shutdown>>
    /\ UNCHANGED pipeVars

\* PostRepository.get_total_count: the number of rows, 0 when the query fails
get_total_count(count_ok) ==
    IF count_ok THEN Cardinality({p \in PostIds : Exists(p)}) ELSE 0

\* the body of delete_oldest_posts; rows of equal fetched_at are taken in any
\* order; db.delete(post) raises for the rows in delete_fails, which the loop
\* skips; a failing commit is answered by rollback and the value of the
\* except clause; asc is the direction of order_by(Post.fetched_at)
DeleteOldest(max_posts, count_ok, delete_fails, commit_ok, except_returns_0, asc) ==
    LET stored == {p \in PostIds : Exists(p)}
        total_count == get_total_count(count_ok)
        posts_to_delete == total_count - max_posts
        call(n) == [NoCall EXCEPT !.op = "delete_oldest_posts", !.ret = "count",
                                  !.count = n,
                                  !.args = <<max_posts, count_ok, delete_fails,
                                             commit_ok>>]
    IN
    /\ IF total_count <= max_posts
       THEN \* nothing is deleted and nothing committed: no fault to meet
            /\ delete_fails = {}
            /\ commit_ok
            /\ last' = call(0)
            /\ UNCHANGED <<posts, status_logs, next_id, transitions_ok, now>>
       ELSE \E oldest_posts \in SUBSET stored :
               /\ Cardinality(oldest_posts) = posts_to_delete
               /\ \A d \in oldest_posts : \A k \in stored \ oldest_posts :
                     IF asc THEN posts[d].fetched_at <= posts[k].fetched_at
                            ELSE posts[d].fetched_at >= posts[k].fetched_at
               /\ delete_fails \subseteq oldest_posts
               /\ LET deleted == oldest_posts \ delete_fails
                      deleted_count == Cardinality(deleted)
                  IN  IF commit_ok
                      THEN /\ posts' = [p \in PostIds |->
                                          IF p \in deleted THEN NoPost ELSE posts[p]]
                           /\ last' = [call(deleted_count) EXCEPT
                                         !.rows = {posts[p] : p \in deleted}]
                      ELSE /\ posts' = posts
                           /\ last' = call(IF except_returns_0 THEN 0
                                                               ELSE deleted_count)
               /\ UNCHANGED <<status_logs, next_id, transitions_ok, now>>

\* faulty variant: the except clause returns deleted_count
DeleteOldestPostsCountingAttempts(max_posts, count_ok, delete_fails, commit_ok) ==
    /\ DeleteOldest(max_posts, count_ok, delete_fails, commit_ok, FALSE, TRUE)
    /\ UNCHANGED schedRest

\* faulty variant: order_by(Post.fetched_at.desc())
DeleteNewestPosts(max_posts, count_ok, delete_fails, commit_ok) ==
    /\ DeleteOldest(max_posts, count_ok, delete_fails, commit_ok, TRUE, FALSE)
    /\ UNCHANGED schedRest

\* PostRepository.delete_oldest_posts(max_posts): what it does to the table
delete_oldest_posts(max_posts, count_ok, delete_fails, commit_ok) ==
    DeleteOldest(max_posts, count_ok, delete_fails, commit_ok, TRUE, TRUE)

\* PostRepository.delete_oldest_posts(max_posts), called on its own
DeleteOldestPosts(max_posts, count_ok, delete_fails, commit_ok) ==
    /\ delete_oldest_posts(max_posts, count_ok, delete_fails, commit_ok)
    /\ UNCHANGED schedRest

\* time passes
LifeTick ==
    /\ now < MaxNow
    /\ now' = now + 1
    /\ UNCHANGED lifeVars
    /\ UNCHANGED schedRest

(***************************************************************************)
(* Deduplicator (src/core/src/deduplication/deduplicator.py)               *)
(***************************************************************************)
MaxBatch == 3        \* posts in one batch

\* the keys of the normalized posts of a batch; '' and None are the empty keys
BatchPostIds == {"", "t3_a", "t3_b"}
BatchPermalinks == {None, "/r/x", "/r/y"}
BatchPosts == [post_id : BatchPostIds, permalink : BatchPermalinks]

\* the batches of at most n posts
Batches(n) == UNION {[1..k -> BatchPosts] : k \in 0..n}

\* faulty variant: `if post_id is not None`
IsNotNone(key) == key # None

\* Python's truth value of a key: `if post_id`
Truthy(key) == key # None /\ key # ""

\* faulty variant: no fallback to the permalink
is_duplicate_by_post_id(post) ==
    LET post_id == post.post_id
    IN  Truthy(post_id) /\ post_id \in existing_post_ids

\* Deduplicator.is_duplicate
is_duplicate(post) ==
    LET post_id == post.post_id
        permalink == post.permalink
    IN  IF Truthy(post_id) /\ post_id \in existing_post_ids THEN TRUE
        ELSE IF Truthy(permalink) /\ permalink \in existing_permalinks THEN TRUE
        ELSE FALSE

\* the loop of filter_duplicates from post_list[i] on
RECURSIVE filter_duplicates_loop(_, _, _, _, _)
filter_duplicates_loop(post_list, i, unique, seen_post_ids, seen_permalinks) ==
    IF i > Len(post_list) THEN unique
    ELSE
      LET post == post_list[i]
          post_id == post.post_id
          permalink == post.permalink
          continue == filter_duplicates_loop(post_list, i + 1, unique, seen_post_ids,
                                             seen_permalinks)
      IN  IF Truthy(post_id) /\ post_id \in seen_post_ids THEN continue
          ELSE IF Truthy(permalink) /\ permalink \in seen_permalinks THEN continue
          ELSE IF is_duplicate(post) THEN continue
          ELSE filter_duplicates_loop(
                  post_list, i + 1, Append(unique, post),
                  IF Truthy(post_id) THEN seen_post_ids \cup {post_id}
                                     ELSE seen_post_ids,
                  IF Truthy(permalink) THEN seen_permalinks \cup {permalink}
                                       ELSE seen_permalinks)

\* Deduplicator.filter_duplicates
filter_duplicates(post_list) == filter_duplicates_loop(post_list, 1, <<>>, {}, {})

\* the returns of a call that has not been made
NotCalled == <<>>

\* Deduplicator(existing_post_ids, existing_permalinks), and the batch the
\* pipeline has normalized
DedupInit ==
    /\ existing_post_ids \in SUBSET (BatchPostIds \ {""})
    /\ existing_permalinks \in SUBSET (BatchPermalinks \ {None})
    /\ batch \in Batches(MaxBatch)
    /\ unique_posts = NotCalled

\* no deduplicator at work
DedupIdle ==
    /\ existing_post_ids = {}
    /\ existing_permalinks = {}
    /\ batch = <<>>
    /\ unique_posts = NotCalled

\* unique_posts = self.deduplicator.filter_duplicates(normalized_posts)
FilterDuplicates ==
    /\ unique_posts = NotCalled
    /\ unique_posts' = <<filter_duplicates(batch)>>
    /\ UNCHANGED <<existing_post_ids, existing_permalinks, batch>>
    /\ UNCHANGED <<schedVars, lifeVars, matchVars, filterVars, crawl, sessions>>


(***************************************************************************)
(* KeywordRepository, SetKeywordMatcher (src/core/src/keywords/) and       *)
(* KeywordFilter (src/core/src/filters/keyword_filter.py).                 *)
(* A string is the sequence of its characters.                             *)
(***************************************************************************)
MaxText == 2         \* characters in a text passed to match()
MaxPosts == 2        \* posts in a list passed to filter_posts

\* the characters of the texts: one in upper case, one in lower case
Chars == {"A", "b"}

\* the strings of at most n characters
Strings(n) == UNION {[1..k -> Chars] : k \in 0..n}

\* str.lower()
str_lower(text) ==
    [i \in 1..Len(text) |-> CASE text[i] = "A" -> "a"
                              [] text[i] = "B" -> "b"
                              [] OTHER -> text[i]]

\* faulty variant: text.startswith(keyword)
startswith(text, keyword) ==
    /\ Len(keyword) <= Len(text)
    /\ SubSeq(text, 1, Len(keyword)) = keyword

\* `keyword in text`
contains(text, keyword) ==
    \E i \in 0..(Len(text) - Len(keyword)) :
        SubSeq(text, i + 1, i + Len(keyword)) = keyword

\* the enabled words a keywords table may hold, by type
PrimaryWords == {{}, {<<"A">>}, {<<"a">>, <<"a", "b">>}}
SecondaryWords == {{}, {<<"b">>}}
KeywordTables == [primary : PrimaryWords, secondary : SecondaryWords]

\* KeywordRepository.get_primary_keywords / get_secondary_keywords: the words
\* in lower case, and [] when the query fails
get_keywords(words, query_ok) ==
    IF query_ok THEN {str_lower(word) : word \in words} ELSE {}

\* KeywordRepository.get_all_keywords
get_all_keywords(primary_ok, secondary_ok) ==
    [primary   |-> get_keywords(keywords_table.primary, primary_ok),
     secondary |-> get_keywords(keywords_table.secondary, secondary_ok)]

\* a keyword set as reload() assigned it from the dict load
Loaded(load, words) == [load |-> load, words |-> words]

\* the loops of match() over one keyword set
matched_keywords(keyword_set, text_lower) ==
    {keyword \in keyword_set : contains(text_lower, keyword)}

\* class MatchResult
MatchResult(primary, secondary) ==
    [matched           |-> Cardinality(primary) > 0 /\ Cardinality(secondary) > 0,
     matched_primary   |-> primary,
     matched_secondary |-> secondary]

\* SetKeywordMatcher.match, run without interruption
match(text) ==
    LET text_lower == str_lower(text)
    IN  MatchResult(matched_keywords(primary_keywords.words, text_lower),
                    matched_keywords(secondary_keywords.words, text_lower))

\* SetKeywordMatcher.get_keyword_count
get_keyword_count ==
    [primary   |-> Cardinality(primary_keywords.words),
     secondary |-> Cardinality(secondary_keywords.words),
     total     |-> Cardinality(primary_keywords.words)
                     + Cardinality(secondary_keywords.words)]

\* the posts handed to the keyword filter
FilterPostSet == [title : {<<"A">>, <<"b">>}, body : {<<>>, <<"b", "a">>}]
PostLists(n) == UNION {[1..k -> FilterPostSet] : k \in 0..n}

\* KeywordFilter.matches
matches(post) ==
    LET title == str_lower(post.title)
        body == str_lower(post.body)
        combined_text == title \o <<" ">> \o body
    IN  match(combined_text).matched

\* [post for post in posts if self.matches(post)]
RECURSIVE comprehension(_)
comprehension(post_list) ==
    IF post_list = <<>> THEN <<>>
    ELSE IF matches(Head(post_list)) THEN <<Head(post_list)>> \o comprehension(Tail(post_list))
    ELSE comprehension(Tail(post_list))

\* KeywordFilter.filter_posts
filter_posts(post_list) ==
    LET counts == get_keyword_count
    IN  IF counts.total = 0 THEN post_list ELSE comprehension(post_list)

\* what get_all_keywords returns on an empty table
NoKeywords == [primary |-> {}, secondary |-> {}]

\* no MatchResult yet
NoMatchResult == [returned |-> FALSE, matched |-> FALSE, matched_primary |-> {},
                  matched_secondary |-> {}, primary_load |-> NoKeywords,
                  secondary_load |-> NoKeywords]

\* SetKeywordMatcher(): __init__ has run reload() on the table as it was
MatcherInit ==
    /\ keywords_table \in KeywordTables
    /\ \E primary_ok, secondary_ok \in BOOLEAN :
          LET loaded == get_all_keywords(primary_ok, secondary_ok)
          IN  /\ primary_keywords = Loaded(loaded, loaded.primary)
              /\ secondary_keywords = Loaded(loaded, loaded.secondary)
    /\ reload_pc = "idle"
    /\ keywords = NoKeywords
    /\ match_pc = "idle"
    /\ match_text = <<>>
    /\ matched_primary = Loaded(NoKeywords, {})
    /\ match_result = NoMatchResult

\* a matcher on an empty table, with no caller
MatcherIdle ==
    /\ keywords_table = NoKeywords
    /\ primary_keywords = Loaded(NoKeywords, {})
    /\ secondary_keywords = Loaded(NoKeywords, {})
    /\ reload_pc = "idle"
    /\ keywords = NoKeywords
    /\ match_pc = "idle"
    /\ match_text = <<>>
    /\ matched_primary = Loaded(NoKeywords, {})
    /\ match_result = NoMatchResult

matchRest == <<schedVars, lifeVars, dedupVars, filterVars, crawl, sessions>>

\* the keywords API rewrites the enabled keywords
UpdateKeywords(table) ==
    /\ table # keywords_table
    /\ keywords_table' = table
    /\ UNCHANGED <<primary_keywords, secondary_keywords, reload_pc,
                   keywords, match_pc, match_text, matched_primary, match_result>>
    /\ UNCHANGED matchRest

\* reload(): keywords = repository.get_all_keywords(...)
ReloadQuery(primary_ok, secondary_ok) ==
    /\ reload_pc = "idle"
    /\ keywords' = get_all_keywords(primary_ok, secondary_ok)
    /\ reload_pc' = "queried"
    /\ UNCHANGED <<keywords_table, primary_keywords, secondary_keywords, match_pc,
                   match_text, matched_primary, match_result>>
    /\ UNCHANGED matchRest

\* reload(): self._primary_keywords = set(keywords['primary'])
ReloadSetPrimary ==
    /\ reload_pc = "queried"
    /\ primary_keywords' = Loaded(keywords, keywords.primary)
    /\ reload_pc' = "primary_set"
    /\ UNCHANGED <<keywords_table, secondary_keywords, keywords, match_pc,
                   match_text, matched_primary, match_result>>
    /\ UNCHANGED matchRest

\* reload(): self._secondary_keywords = set(keywords['secondary'])
ReloadSetSecondary ==
    /\ reload_pc = "primary_set"
    /\ secondary_keywords' = Loaded(keywords, keywords.secondary)
    /\ reload_pc' = "idle"
    /\ keywords' = NoKeywords
    /\ UNCHANGED <<keywords_table, primary_keywords, match_pc, match_text,
                   matched_primary, match_result>>
    /\ UNCHANGED matchRest

\* match(text) is called
MatchCall(text) ==
    /\ match_pc = "idle"
    /\ match_text' = text
    /\ match_pc' = "primary"
    /\ matched_primary' = Loaded(NoKeywords, {})
    /\ match_result' = NoMatchResult
    /\ UNCHANGED <<keywords_table, primary_keywords, secondary_keywords, reload_pc,
                   keywords>>
    /\ UNCHANGED matchRest

\* match(): for keyword in self._primary_keywords
MatchPrimary ==
    /\ match_pc = "primary"
    /\ matched_primary' =
          Loaded(primary_keywords.load,
                 matched_keywords(primary_keywords.words, str_lower(match_text)))
    /\ match_pc' = "secondary"
    /\ UNCHANGED <<keywords_table, primary_keywords, secondary_keywords, reload_pc,
                   keywords, match_text, match_result>>
    /\ UNCHANGED matchRest

\* match(): for keyword in self._secondary_keywords, and the return
MatchSecondary ==
    /\ match_pc = "secondary"
    /\ LET matched_secondary ==
              matched_keywords(secondary_keywords.words, str_lower(match_text))
           r == MatchResult(matched_primary.words, matched_secondary)
       IN  match_result' = [returned          |-> TRUE,
                            matched           |-> r.matched,
                            matched_primary   |-> r.matched_primary,
                            matched_secondary |-> r.matched_secondary,
                            primary_load      |-> matched_primary.load,
                            secondary_load    |-> secondary_keywords.load]
    /\ match_pc' = "idle"
    /\ UNCHANGED <<keywords_table, primary_keywords, secondary_keywords, reload_pc,
                   keywords, match_text, matched_primary>>
    /\ UNCHANGED matchRest

\* a KeywordFilter on a loaded matcher, and the posts handed to it
FilterInit ==
    /\ filter_input \in PostLists(MaxPosts)
    /\ filtered = NotCalled

\* no keyword filter at work
FilterIdle ==
    /\ filter_input = <<>>
    /\ filtered = NotCalled

\* filter_posts(posts) is called and returns
FilterPosts ==
    /\ filtered = NotCalled
    /\ filtered' = <<filter_posts(filter_input)>>
    /\ UNCHANGED filter_input
    /\ UNCHANGED <<schedVars, lifeVars, dedupVars, matchVars, crawl, sessions>>

(***************************************************************************)
(* CrawlerPipeline (src/core/src/pipeline/crawler_pipeline.py), run by     *)
(* SchedulerService._run_crawler_sync                                      *)
(***************************************************************************)
MaxFetch == 2        \* posts one subreddit returns

\* CrawlerConfig.SUBREDDITS, in the order of the fetcher's loop
SUBREDDITS == <<"s1", "s2">>
Sources == 1..Len(SUBREDDITS)

\* the dict the fetcher builds of the submission pid
Submission(pid) == [post_id |-> pid, permalink |-> "/r/" \o pid]

\* what one subreddit can return: at most n submissions
Listings(n) == UNION {[1..k -> PostIds] : k \in 0..n}

\* faulty variant: the first RedditAPIException ends the loop
RECURSIVE fetch_until_failure(_, _, _, _)
fetch_until_failure(listing, failed, i, all_posts) ==
    IF i > Len(SUBREDDITS) \/ i \in failed THEN all_posts
    ELSE fetch_until_failure(listing, failed, i + 1,
                             all_posts \o [k \in 1..Len(listing[i]) |->
                                             Submission(listing[i][k])])

\* the loop of fetch_all_configured_subreddits from SUBREDDITS[i] on; the
\* subreddits in failed raise RedditAPIException, which the loop skips
RECURSIVE fetch_loop(_, _, _, _)
fetch_loop(listing, failed, i, all_posts) ==
    IF i > Len(SUBREDDITS) THEN all_posts
    ELSE IF i \in failed
    THEN fetch_loop(listing, failed, i + 1, all_posts)
    ELSE fetch_loop(listing, failed, i + 1,
                    all_posts \o [k \in 1..Len(listing[i]) |->
                                    Submission(listing[i][k])])

\* RedditFetcher.fetch_all_configured_subreddits
fetch_all_configured_subreddits(listing, failed) ==
    fetch_loop(listing, failed, 1, <<>>)

\* dict.get(key, default)
dict_get(d, key, default) == IF key \in DOMAIN d THEN d[key] ELSE default

\* the dict run() returns when nothing was fetched
early_results ==
    [total_fetched |-> 0, total_saved |-> 0, duplicates_skipped |-> 0]

\* the dict run() returns after the persist stage
run_results(raw_posts, saved_posts, duplicates_skipped, deleted_count) ==
    [total_fetched |-> Len(raw_posts), total_saved |-> Len(saved_posts),
     duplicates_skipped |-> duplicates_skipped,
     old_posts_deleted |-> deleted_count]

\* the success dict of _run_crawler_sync, by its status and its counts
success_result(results) ==
    [status |-> "success",
     total_fetched |-> results.total_fetched,
     total_saved |-> results.total_saved,
     duplicates_skipped |-> results.duplicates_skipped,
     old_posts_deleted |-> dict_get(results, "old_posts_deleted", 0)]

\* the failed dict of _run_crawler_sync
failed_result(e) == [status |-> "failed", error |-> e]

\* no run yet: the position, run()'s locals (deleted_count, raw_posts,
\* saved_posts, the dict it returns), the dict _run_crawler_sync returns,
\* and what the run met: whether the cleanup ran without a fault, what the
\* subreddits answered, the subreddits whose fetch raised, the posts of
\* enriched_posts create_posts has yet to take, and those whose create_post
\* raised
NoRun == [pc |-> "idle", deleted_count |-> 0, cleanup_faultless |-> TRUE,
          listing |-> <<>>, fetch_failed |-> {},
          raw_posts |-> <<>>, to_save |-> <<>>,
          saved_posts |-> <<>>, save_failed |-> <<>>,
          results |-> NotCalled, job |-> NoResult]

\* no pipeline at work
CrawlIdle == crawl = NoRun

\* the variables a stage of the run leaves alone but for the deduplicator's
crawlRest == <<schedQuiet, matchVars, filterVars, sessions>>

\* pipeline = CrawlerPipeline(): the Reddit client, then the known keys of the
\* store, which the repository answers with an empty set when its query fails
Construct(client_ok, ids_ok, permalinks_ok) ==
    /\ crawl.pc \in {"idle", "returned"}
    /\ IF ~client_ok
       THEN \* RedditAuth raises; _run_crawler_sync's except clause
            /\ ids_ok /\ permalinks_ok
            /\ crawl' = [NoRun EXCEPT !.pc = "returned",
                            !.job = failed_result("CrawlerPipeline() failed")]
            /\ UNCHANGED dedupVars
       ELSE /\ existing_post_ids' = IF ids_ok THEN Stored ELSE {}
            /\ existing_permalinks' =
                  IF permalinks_ok
                  THEN {Submission(p).permalink : p \in Stored} ELSE {}
            /\ batch' = <<>>
            /\ unique_posts' = NotCalled
            /\ crawl' = [NoRun EXCEPT !.pc = "constructed"]
    /\ UNCHANGED <<now, lifeVars, crawlRest>>

\* Stage 0: deleted_count = self.storage.cleanup_old_posts(max_posts)
Cleanup(count_ok, delete_fails, commit_ok) ==
    /\ crawl.pc = "constructed"
    /\ delete_oldest_posts(DB_MAX_POSTS, count_ok, delete_fails, commit_ok)
    /\ crawl' = [crawl EXCEPT !.pc = "cleaned",
                              !.deleted_count = last'.count,
                              !.cleanup_faultless =
                                  count_ok /\ commit_ok /\ delete_fails = {}]
    /\ UNCHANGED <<dedupVars, crawlRest>>

\* Stage 1: raw_posts = self.fetcher.fetch_all_configured_subreddits()
Fetch(listing, failed) ==
    /\ crawl.pc = "cleaned"
    /\ \A i \in failed : listing[i] = <<>>
    /\ crawl' = [crawl EXCEPT !.pc = "fetched",
                              !.listing = listing,
                              !.fetch_failed = failed,
                              !.raw_posts =
                                  fetch_all_configured_subreddits(listing, failed)]
    /\ UNCHANGED <<now, lifeVars, dedupVars, crawlRest>>

\* `if not raw_posts: return {...}`, and the dict _run_crawler_sync makes of it
EarlyReturn ==
    /\ crawl.pc = "fetched"
    /\ crawl.raw_posts = <<>>
    /\ crawl' = [crawl EXCEPT !.pc = "returned",
                              !.results = <<early_results>>,
                              !.job = success_result(early_results)]
    /\ UNCHANGED <<now, lifeVars, dedupVars, crawlRest>>

\* faulty variant: the raw batch goes on to the persist stage
raw_batch == crawl.raw_posts

\* enriched_posts = unique_posts, of the deduplicator's answer
enriched_posts == unique_posts'[1]

\* Stage 5 and 6: unique_posts = self.deduplicator.filter_duplicates(
\* normalized_posts), which the persist stage is handed
Deduplicate ==
    /\ crawl.pc = "fetched"
    /\ crawl.raw_posts # <<>>
    /\ batch' = crawl.raw_posts
    /\ unique_posts' = <<filter_duplicates(crawl.raw_posts)>>
    /\ crawl' = [crawl EXCEPT !.pc = "persisting", !.to_save = enriched_posts]
    /\ UNCHANGED <<existing_post_ids, existing_permalinks>>
    /\ UNCHANGED <<now, lifeVars, crawlRest>>

\* Stage 7, one turn of the loop of create_posts: the post is created, or the
\* existing post of its post_id is returned, or StorageException is skipped
SavePost(insert_ok) ==
    /\ crawl.pc = "persisting"
    /\ crawl.to_save # <<>>
    /\ LET post == Head(crawl.to_save)
       IN  /\ create_post(post.post_id, insert_ok, "none")
           /\ crawl' = [crawl EXCEPT
                 !.to_save = Tail(@),
                 !.saved_posts = IF last'.ret = "StorageException" THEN @
                                 ELSE Append(@, last'.ret),
                 !.save_failed = IF last'.ret = "StorageException"
                                 THEN Append(@, post) ELSE @]
    /\ UNCHANGED <<dedupVars, crawlRest>>

\* the return of run() after the persist stage, and the dict
\* _run_crawler_sync makes of it
Return ==
    /\ crawl.pc = "persisting"
    /\ crawl.to_save = <<>>
    /\ LET results == run_results(crawl.raw_posts, crawl.saved_posts,
                                  Len(batch) - Len(unique_posts[1]),
                                  crawl.deleted_count)
       IN  crawl' = [crawl EXCEPT !.pc = "returned",
                                  !.results = <<results>>,
                                  !.job = success_result(results)]
    /\ UNCHANGED <<now, lifeVars, dedupVars, crawlRest>>

(***************************************************************************)
(* Callers at work at the same time, each in a database session of its own *)
(***************************************************************************)
\* the callers: the workers' requests and the executor's housekeeping job
Sweeper == "sweeper"
Callers == Workers \cup {Sweeper}

\* a caller at rest: its position; the call and the post of a request, the
\* object its query returned and what the call returned; of a sweep the rows
\* still to process, the objects its query returned, whether a commit of the
\* session has expired them, and the running count
NoSession == [pc |-> "idle", op |-> "none", post_id |-> "", row |-> NoPost,
              ret |-> "", todo |-> <<>>, rows |-> [p \in PostIds |-> NoPost],
              expired |-> FALSE, count |-> 0]

\* no caller at work
SessionsIdle == sessions = [c \in Callers |-> NoSession]

\* what a caller's step leaves alone but for the posts table and the clock
sessRest == <<schedQuiet, dedupVars, matchVars, filterVars, crawl>>

\* the flush of db.commit(): UPDATE posts SET <the attributes the session
\* changed on its object> WHERE id = <the object's id>, on the committed row
flush(committed, loaded, changed) ==
    [committed EXCEPT
        !.status = IF changed.status # loaded.status THEN changed.status ELSE @,
        !.assigned_to = IF changed.assigned_to # loaded.assigned_to
                        THEN changed.assigned_to ELSE @]

\* PostRepository.assign_post and PostRepository.mark_replied in the session
\* of a request, up to `post = self.db.query(Post).filter(...).first()`
SessionQuery(w, op, pid) ==
    /\ sessions[w].pc \in {"idle", "done"}
    /\ sessions' = [sessions EXCEPT ![w] =
                       [NoSession EXCEPT !.pc = "queried", !.op = op,
                                         !.post_id = pid, !.row = posts[pid]]]
    /\ UNCHANGED <<now, lifeVars, sessRest>>

\* the rest of the call: the lifecycle service checks and changes the object
\* the query returned, and transition_status commits
SessionCommit(w) ==
    /\ sessions[w].pc = "queried"
    /\ LET s == sessions[w]
           pid == s.post_id
           r == IF s.op = "PostRepository.assign_post"
                THEN PostRepository_assign_post(s.row, w, TRUE, TRUE)
                ELSE PostRepository_mark_replied(s.row, w, TRUE, TRUE)
       IN  /\ Committed(posts[pid].id, r)
           /\ posts' = [posts EXCEPT ![pid] =
                           IF r.ret = "True" THEN flush(@, s.row, r.post) ELSE @]
           /\ last' = Call(s.op, pid, w, r.ret, r.logs)
           /\ sessions' = [sessions EXCEPT ![w].pc = "done", ![w].ret = r.ret,
                                           ![w].row = NoPost]
    /\ UNCHANGED <<next_id, now, sessRest>>

\* the name of the sweep of a housekeeping job
SweepOp(job) ==
    IF job = "auto_expire_pending" THEN "expire_old_pending_posts"
                                   ELSE "unassign_old_assigned_posts"

\* a sweep in its own session, up to `old_posts = db.query(Post).filter(
\* ...).all()`; with no row it returns 0
SweepQuery(job) ==
    LET old_posts == IF job = "auto_expire_pending" THEN Expirable
                                                    ELSE Unassignable
    IN  /\ sessions[Sweeper].pc = "idle"
        /\ IF old_posts = {}
           THEN /\ last' = [NoCall EXCEPT !.op = SweepOp(job), !.ret = "count",
                                          !.args = <<{}>>]
                /\ UNCHANGED sessions
           ELSE /\ sessions' = [sessions EXCEPT ![Sweeper] =
                                  [NoSession EXCEPT !.pc = "loop",
                                                    !.op = SweepOp(job),
                                                    !.todo = ById(old_posts),
                                                    !.rows = posts]]
                /\ UNCHANGED last
        /\ UNCHANGED <<posts, status_logs, next_id, transitions_ok, now, sessRest>>

\* `for post in old_posts`, and the read of post.status in auto_expire or
\* auto_unassign: the object as the query returned it or, when a commit of
\* this session has expired it, as it is reloaded
SweepLoad ==
    /\ sessions[Sweeper].pc = "loop"
    /\ sessions[Sweeper].todo # <<>>
    /\ LET s == sessions[Sweeper]
           pid == Head(s.todo)
       IN  sessions' = [sessions EXCEPT
                          ![Sweeper].pc = "item",
                          ![Sweeper].post_id = pid,
                          ![Sweeper].row = IF s.expired THEN posts[pid]
                                                        ELSE s.rows[pid]]
    /\ UNCHANGED <<now, lifeVars, sessRest>>

\* the rest of auto_expire or auto_unassign on the object, with the commit of
\* transition_status, and `expired_count += 1`
SweepCommit ==
    /\ sessions[Sweeper].pc = "item"
    /\ LET s == sessions[Sweeper]
           pid == s.post_id
           r == IF s.op = "expire_old_pending_posts"
                THEN auto_expire(s.row, TRUE, TRUE)
                ELSE auto_unassign(s.row, TRUE, TRUE)
       IN  /\ Committed(posts[pid].id, r)
           /\ posts' = [posts EXCEPT ![pid] =
                           IF r.ret = "True" THEN flush(@, s.row, r.post) ELSE @]
           /\ last' = Call(IF s.op = "expire_old_pending_posts"
                           THEN "auto_expire" ELSE "auto_unassign",
                           pid, None, r.ret, r.logs)
           /\ sessions' = [sessions EXCEPT
                             ![Sweeper].pc = "loop",
                             ![Sweeper].todo = Tail(@),
                             ![Sweeper].expired = @ \/ r.ret = "True",
                             ![Sweeper].count = IF r.ret = "True" THEN @ + 1
                                                                  ELSE @]
    /\ UNCHANGED <<next_id, now, sessRest>>

\* `return expired_count`
SweepReturn ==
    /\ sessions[Sweeper].pc = "loop"
    /\ sessions[Sweeper].todo = <<>>
    /\ last' = [NoCall EXCEPT !.op = sessions[Sweeper].op, !.ret = "count",
                              !.count = sessions[Sweeper].count,
                              !.args = <<{}>>]
    /\ sessions' = [sessions EXCEPT ![Sweeper] = NoSession]
    /\ UNCHANGED <<posts, status_logs, next_id, transitions_ok, now, sessRest>>

\* the scheduler and the posts table, with the pipeline at rest
Init ==
    SchedInit /\ LifeInit /\ DedupIdle /\ MatcherIdle /\ FilterIdle /\ CrawlIdle
    /\ SessionsIdle

\* the calls of the lifecycle service, the repository and the storage backend
\* on one post
Next ==
    \/ \E p \in LifePosts, i \in BOOLEAN, f \in Faults : CreatePost(p, i, f)
    \/ \E p \in LifePosts, s \in StatusArgs, w \in Workers \cup {None},
          f \in Faults : TransitionStatus(p, s, w, f)
    \/ \E p \in LifePosts, w \in Workers, f \in Faults : AssignPost(p, w, f)
    \/ \E p \in LifePosts, w \in Workers \cup {None}, f \in Faults :
          MarkReplied(p, w, f)
    \/ \E p \in LifePosts, w \in Workers \cup {None}, f \in Faults :
          ArchivePost(p, w, f)
    \/ \E p \in LifePosts, f \in Faults : AutoExpire(p, f)
    \/ \E p \in LifePosts, f \in Faults : AutoUnassign(p, f)
    \/ \E p \in LifePosts, w \in Workers, f \in Faults :
          RepositoryAssignPost(p, w, f)
    \/ \E p \in LifePosts, w \in Workers \cup {None}, f \in Faults :
          RepositoryMarkReplied(p, w, f)
    \/ \E p \in LifePosts, s \in StorageStatusArgs, w \in Workers \cup {None},
          f \in Faults : UpdatePostStatus(p, s, w, f)
    \/ \E p \in LifePosts, a \in PostAction, w \in Workers \cup {None} :
          ValidateAction(p, a, w)

Spec == Init /\ [][Next]_vars

\* the table under the pipeline's writes, the sweeps, the cleanup and the clock
StoreNext ==
    \/ \E p \in PostIds, i \in BOOLEAN, f \in Faults : CreatePost(p, i, f)
    \/ \E p \in PostIds, w \in Workers, f \in Faults :
          RepositoryAssignPost(p, w, f)
    \/ \E ls \in SUBSET Expirable : \E cs \in SUBSET Expirable :
          ExpireOldPendingPosts(ls, cs)
    \/ \E ls \in SUBSET Unassignable : \E cs \in SUBSET Unassignable :
          UnassignOldAssignedPosts(ls, cs)
    \/ \E commit_ok \in BOOLEAN :
          DeleteOldestPosts(DB_MAX_POSTS, TRUE, {}, commit_ok)
    \/ LifeTick

StoreSpec == Init /\ [][StoreNext]_vars

\* the table under the pipeline's inserts, the workers' assignments, the
\* cleanup with any limit up to the configured one and under any fault of its
\* own, and the clock
CleanupNext ==
    \/ \E p \in PostIds : CreatePost(p, TRUE, "none")
    \/ \E p \in PostIds, w \in Workers : RepositoryAssignPost(p, w, "none")
    \/ \E max_posts \in 0..DB_MAX_POSTS, count_ok, commit_ok \in BOOLEAN :
          \E delete_fails \in SUBSET PostIds :
             DeleteOldestPosts(max_posts, count_ok, delete_fails, commit_ok)
    \/ LifeTick

CleanupSpec == Init /\ [][CleanupNext]_vars

SchedSpec == Init /\ [][SchedNext]_vars

\* the scheduler with its three jobs on the one executor
JobsNext ==
    \/ Start
    \/ ScheduledTrigger
    \/ \E t \in Threads : run_crawler_job(t)
    \/ \E t \in Threads : MarkRunning(t)
    \/ \E t \in Threads : RunPipeline(t)
    \/ \E t \in Threads : OnSuccess(t)
    \/ \E t \in Threads : OnException(t)
    \/ \E t \in Threads : ClearRunning(t)
    \/ \E t \in Threads : Release(t)
    \/ \E t \in Threads : Returned(t)
    \/ \E j \in SweepJobs : SweepDue(j)
    \/ \E j \in SweepJobs : SweepStart(j)
    \/ \E j \in SweepJobs : RunSweep(j)
    \/ PromptTick

JobsSpec == Init /\ [][JobsNext]_vars

\* the scheduler under calls of shutdown()
ShutdownNext ==
    \/ Start
    \/ ScheduledTrigger
    \/ \E t \in Threads : run_crawler_job(t)
    \/ \E t \in Threads : MarkRunning(t)
    \/ \E t \in Threads : RunPipeline(t)
    \/ \E t \in Threads : OnSuccess(t)
    \/ \E t \in Threads : OnException(t)
    \/ \E t \in Threads : ClearRunning(t)
    \/ \E t \in Threads : Release(t)
    \/ \E t \in Threads : Returned(t)
    \/ ShutdownEnter
    \/ \E elapsed \in BOOLEAN : ShutdownWait(elapsed)
    \/ ShutdownScheduler
    \/ ShutdownReturn
    \/ Tick

ShutdownSpec == Init /\ [][ShutdownNext]_vars

\* the posts under inserts, the workers' assignments, the faultless
\* auto-unassign sweep and the clock
UnassignNext ==
    \/ \E p \in PostIds : CreatePost(p, TRUE, "none")
    \/ \E p \in PostIds, w \in Workers : RepositoryAssignPost(p, w, "none")
    \/ UnassignOldAssignedPosts({}, {})
    \/ LifeTick

UnassignSpec == Init /\ [][UnassignNext]_vars

\* the operations of the lifecycle service on the posts the pipeline has
\* created, each under any fault of the database
LifecycleNext ==
    \/ \E p \in PostIds, i \in BOOLEAN, f \in Faults : CreatePost(p, i, f)
    \/ \E p \in PostIds, w \in Workers, f \in Faults : AssignPost(p, w, f)
    \/ \E p \in PostIds, w \in Workers \cup {None}, f \in Faults :
          MarkReplied(p, w, f)
    \/ \E p \in PostIds, w \in Workers \cup {None}, f \in Faults :
          ArchivePost(p, w, f)
    \/ \E p \in PostIds, f \in Faults : AutoExpire(p, f)
    \/ \E p \in PostIds, f \in Faults : AutoUnassign(p, f)

LifecycleSpec == Init /\ [][LifecycleNext]_vars

\* the posts under the workers' requests and a sweep, each in a session of
\* its own and in any interleaving of their queries and commits, and the
\* clock
SessionsNext ==
    \/ \E p \in PostIds : CreatePost(p, TRUE, "none")
    \/ \E w \in Workers, p \in PostIds :
          \E op \in {"PostRepository.assign_post", "PostRepository.mark_replied"} :
             SessionQuery(w, op, p)
    \/ \E w \in Workers : SessionCommit(w)
    \/ \E job \in SweepJobs : SweepQuery(job)
    \/ SweepLoad
    \/ SweepCommit
    \/ SweepReturn
    \/ LifeTick

SessionsSpec == Init /\ [][SessionsNext]_vars

\* the posts under the endpoints of the workers: assign and reply of the
\* FastAPI routes and the comment view, the archival of a post and the
\* auto-unassign of an assigned one
ApiNext ==
    \/ \E p \in PostIds : CreatePost(p, TRUE, "none")
    \/ \E p \in PostIds, w \in Workers : RepositoryAssignPost(p, w, "none")
    \/ \E p \in PostIds, w \in Workers, f \in Faults : AssignPostRoute(p, w, f)
    \/ \E p \in PostIds, w \in Workers, comment_ok \in BOOLEAN, f \in Faults :
          ReplyToPost(p, w, comment_ok, f)
    \/ \E p \in PostIds, w \in Workers, comment_ok \in BOOLEAN, f \in Faults :
          PostComment(p, w, comment_ok, f)
    \/ \E p \in PostIds, w \in Workers : ArchivePost(p, w, "none")
    \/ \E p \in PostIds : AutoUnassign(p, "none")

ApiSpec == Init /\ [][ApiNext]_vars

\* one batch through the deduplicator
DedupNext == FilterDuplicates

\* a deduplicator with its known keys and a batch, the rest at rest
InitDedup ==
    SchedInit /\ LifeInit /\ DedupInit /\ MatcherIdle /\ FilterIdle /\ CrawlIdle
    /\ SessionsIdle

DedupSpec == InitDedup /\ [][DedupNext]_vars

\* the matcher under calls of match(), reloads and changes of the table
MatchNext ==
    \/ \E table \in KeywordTables : UpdateKeywords(table)
    \/ \E primary_ok, secondary_ok \in BOOLEAN : ReloadQuery(primary_ok, secondary_ok)
    \/ ReloadSetPrimary
    \/ ReloadSetSecondary
    \/ \E text \in Strings(MaxText) : MatchCall(text)
    \/ MatchPrimary
    \/ MatchSecondary

\* a matcher loaded from some keywords table, the rest at rest
InitMatch ==
    SchedInit /\ LifeInit /\ DedupIdle /\ MatcherInit /\ FilterIdle /\ CrawlIdle
    /\ SessionsIdle

MatchSpec == InitMatch /\ [][MatchNext]_vars

\* one matcher under reloads and calls of match(), the keywords table as it
\* was when the matcher was built
ReloadNext ==
    \/ \E primary_ok, secondary_ok \in BOOLEAN : ReloadQuery(primary_ok, secondary_ok)
    \/ ReloadSetPrimary
    \/ ReloadSetSecondary
    \/ \E text \in Strings(MaxText) : MatchCall(text)
    \/ MatchPrimary
    \/ MatchSecondary

ReloadSpec == InitMatch /\ [][ReloadNext]_vars

\* one list of posts through the keyword filter
FilterNext == FilterPosts

\* a keyword filter on a loaded matcher and a list of posts, the rest at rest
InitFilter ==
    SchedInit /\ LifeInit /\ DedupIdle /\ MatcherInit /\ FilterInit /\ CrawlIdle
    /\ SessionsIdle

FilterSpec == InitFilter /\ [][FilterNext]_vars

\* runs of the pipeline one after the other, under any fault of the Reddit
\* client, of the store's queries, of the cleanup, of a subreddit's fetch and
\* of an insert
PipelineNext ==
    \/ \E client_ok, ids_ok, permalinks_ok \in BOOLEAN :
          Construct(client_ok, ids_ok, permalinks_ok)
    \/ \E count_ok, commit_ok \in BOOLEAN : \E delete_fails \in SUBSET PostIds :
          Cleanup(count_ok, delete_fails, commit_ok)
    \/ \E listing \in [Sources -> Listings(MaxFetch)] :
          \E failed \in SUBSET Sources : Fetch(listing, failed)
    \/ EarlyReturn
    \/ Deduplicate
    \/ \E insert_ok \in BOOLEAN : SavePost(insert_ok)
    \/ Return

PipelineSpec == Init /\ [][PipelineNext]_vars

(***************************************************************************)
(* Properties of SchedulerService, checked under SchedSpec                 *)
(***************************************************************************)
\* the executions of _run_crawler_sync that hold the job lock
Running == {t \in Threads : pc[t] \in InFlight}

\* C1: under any interleaving of scheduled and manual triggers, at most one
\* execution of _run_crawler_sync is between its successful lock acquisition
\* and its lock release.
C1_MutualExclusion == Cardinality(Running) <= 1

\* a manual run is in the pipeline while the scheduled trigger and a second
\* manual trigger have both come back
C1_Contended ==
    \E t \in Threads \ {SchedThread} :
        /\ pc[t] = "started"
        /\ \A u \in Threads \ {t} : pc[u] = "returned"

\* C2: a trigger issued while another run holds the lock returns the skipped
\* result in the same step, starts no pipeline, and leaves the lock, the
\* in-flight flag, the last-run time and the next-run time as they were.
C2_SkipIsSynchronous ==
    [][\A t \in Threads :
          (job_lock /\ pc[t] = "idle" /\ pc'[t] # "idle") =>
              /\ pc'[t] = "returned"
              /\ result'[t] = [status |-> "skipped", error |-> ""]
              /\ \A u \in Threads \ {t} : pc'[u] = pc[u]
              /\ job_lock' = job_lock
              /\ job_running' = job_running
              /\ last_run_time' = last_run_time
              /\ next_run_time' = next_run_time]_vars

\* scenario E: the manual trigger has been skipped while the scheduled run is
\* in the pipeline
C2_ManualSkipped ==
    \E t \in Threads \ {SchedThread} :
        /\ pc[t] = "returned"
        /\ result[t].status = "skipped"
        /\ pc[SchedThread] = "started"
        /\ job_running
        /\ last_run_time # NoTime

\* C3: when the pipeline raises, the call returns a failed result carrying the
\* error message and advances the next-run time to now + interval; and the
\* lock and the in-flight flag are never left set by an execution that is
\* over, so the triggers that follow a failed run acquire the lock.
C3_FailureHandled ==
    [][/\ \A t \in Threads :
             (pc[t] = "raised" /\ pc'[t] # "raised") =>
                 /\ exc[t] \in Errors
                 /\ result'[t] = [status |-> "failed", error |-> exc[t]]
                 /\ next_run_time' = now + IntervalHours
       /\ \A t \in Threads :
             (pc'[t] = "returned" /\ pc[t] # "returned" /\ Running' = {}) =>
                 /\ ~job_lock'
                 /\ ~job_running']_vars

\* a run has failed and returned, and the trigger after it holds the lock
C3_RunsAfterFailure ==
    \E t, u \in Threads :
        /\ t # u
        /\ pc[t] = "returned"
        /\ result[t].status = "failed"
        /\ result[t].error \in Errors
        /\ pc[u] = "started"
        /\ next_run_time = now + IntervalHours

\* C38: the in-flight flag is consistent with the job lock: whenever
\* _job_running is true the lock is held by exactly one execution of
\* _run_crawler_sync, whenever the lock is free the flag is false, and the
\* flag changes only in a step of the execution that holds the lock.
C38_FlagWithinLock ==
    /\ [](job_running => (job_lock /\ Cardinality(Running) = 1))
    /\ [](~job_lock => ~job_running)
    /\ [][job_running' # job_running =>
             \E t \in Running : job_lock /\ pc'[t] # pc[t] /\ pc'[t] \in InFlight
         ]_vars

\* a run has raised with the flag still up, and a trigger issued meanwhile has
\* come back skipped without touching the flag
C38_FlagUpWhileRaised ==
    \E t, u \in Threads :
        /\ t # u
        /\ pc[t] = "raised"
        /\ job_running
        /\ job_lock
        /\ pc[u] = "returned"
        /\ result[u].status = "skipped"

(***************************************************************************)
(* Properties of the lifecycle layer, checked under Spec                   *)
(***************************************************************************)
\* the transitions the documentation lists
DocumentedPairs ==
    {<<"fetched", "pending">>, <<"pending", "assigned">>, <<"pending", "archived">>,
     <<"assigned", "replied">>, <<"assigned", "pending">>, <<"replied", "archived">>}

Documented(current, target) ==
    /\ current \in PostStatus
    /\ Lower(target) \in PostStatus
    /\ (<<current, Lower(target)>> \in DocumentedPairs \/ current = Lower(target))

\* C4: on every stored post and for every target name, transition_status
\* succeeds exactly for the six listed pairs and for current = target (names
\* compared in lower case, the commit going through), and then sets the status
\* and keeps the assignee; in every other case it raises LifecycleException and
\* leaves the post's status, its assignee and the audit log unchanged.
C4_TransitionTable ==
    \A p \in Stored, target \in StatusArgs, by \in Workers \cup {None},
       f \in Faults :
        LET post == posts[p]
            r    == transition_status(post, post, target, by, None,
                                      f # "log_write", f # "commit")
        IN  IF Documented(post.status, target) /\ f # "commit"
            THEN /\ r.ret = "True"
                 /\ r.post = [post EXCEPT !.status = Lower(target)]
            ELSE /\ r.ret = "LifecycleException"
                 /\ r.post = post
                 /\ r.logs = <<>>

\* a transition out of archived has been asked for and refused
C4_Refused ==
    /\ last.op = "transition_status"
    /\ last.ret = "LifecycleException"
    /\ last.post_id \in Stored
    /\ posts[last.post_id].status = "archived"
    /\ status_logs[posts[last.post_id].id] = transitions_ok[posts[last.post_id].id]

\* C5: every stored post's status is one of the five lifecycle states, and
\* every change of a stored post's status is a pair of the transition table
\* that the same call records in the audit log with exactly that pair.
C5_OnlyValidatedChanges ==
    [][\A p \in PostIds :
          posts'[p].id # 0 =>
              /\ posts'[p].status \in PostStatus
              /\ (posts[p].id # 0 /\ posts'[p].status # posts[p].status) =>
                    /\ <<posts[p].status, posts'[p].status>> \in DocumentedPairs
                    /\ \E i \in 1..Len(last'.logs) :
                          /\ last'.logs[i].post_id = posts[p].id
                          /\ last'.logs[i].old_status = posts[p].status
                          /\ last'.logs[i].new_status = posts'[p].status]_vars

\* C6: in every reachable state, also after a failed log write or a failed
\* commit, the number of audit records of a post equals the number of
\* successful transition_status calls on it.
C6_LogAtomic ==
    \A i \in 1..MaxRowId : status_logs[i] = transitions_ok[i]

\* C7: once a stored post is archived, no call changes its status again.
C7_ArchivedTerminal ==
    [][\A p \in PostIds :
          (posts[p].id # 0 /\ posts[p].status = "archived" /\ posts'[p].id # 0)
              => posts'[p].status = "archived"]_vars

\* C8: the post create_post returns as newly created is pending and has
\* exactly one audit record, fetched -> pending by 'system'.
C8_CreatedPending ==
    [][\A p \in PostIds :
          (posts[p].id = 0 /\ posts'[p].id # 0) =>
              /\ last'.op = "create_post" /\ last'.ret = "created"
              /\ posts'[p].status = "pending"
              /\ status_logs'[posts'[p].id] = 1
              /\ last'.logs = <<LogEntry(posts'[p], "fetched", "pending", "system",
                                         "post_created")>>]_vars

\* C9: a pending post is assigned by assign_post(w): status assigned, assignee
\* w; in any other status, and so on a post assigned to w1 for another worker
\* w2, assign_post raises LifecycleException, the validator rejects
\* assign_to_worker, the repository returns False, and status and assignee
\* stay as they were.
C9_AssignOnlyFromPending ==
    \A p \in Stored, w \in Workers :
        LET post == posts[p] IN
        /\ post.status = "pending" =>
              LET r == assign_post(post, w, None, TRUE, TRUE) IN
              /\ r.ret = "True"
              /\ r.post = [post EXCEPT !.status = "assigned", !.assigned_to = w]
              /\ PostRepository_assign_post(post, w, TRUE, TRUE) = r
        /\ post.status # "pending" =>
              \A f \in Faults :
                 LET r == assign_post(post, w, None, f # "log_write", f # "commit")
                     q == PostRepository_assign_post(post, w, f # "log_write",
                                                     f # "commit")
                 IN  /\ r.ret = "LifecycleException"
                     /\ r.post = post /\ r.logs = <<>>
                     /\ q.ret = "False"
                     /\ q.post = post /\ q.logs = <<>>
        /\ (post.status = "assigned" /\ post.assigned_to # w) =>
              ~validate_action(post, "assign_to_worker", w)

\* a second worker has tried to take a post that is assigned to the first
C9_SecondWorkerRefused ==
    /\ last.op = "assign_post"
    /\ last.ret = "LifecycleException"
    /\ last.post_id \in Stored
    /\ posts[last.post_id].status = "assigned"
    /\ posts[last.post_id].assigned_to \in Workers \ {last.user}

\* C10: through PostRepository.mark_replied and update_post_status('replied'),
\* a post assigned to a worker moves to replied only when the acting worker is
\* that worker.
C10_OnlyAssigneeReplies ==
    [][\A p \in PostIds :
          (/\ last'.op \in {"PostRepository.mark_replied", "update_post_status"}
           /\ last'.post_id = p
           /\ posts[p].status = "assigned"
           /\ posts[p].assigned_to \in Workers
           /\ posts'[p].status = "replied")
              => last'.user = posts[p].assigned_to]_vars

\* C11: for every stored post in one of the five statuses s,
\* transition_status(post, s) succeeds (the commit going through), leaves the
\* status and the assignee as they were and adds at most one audit record; a
\* second application leaves the post as the first did.
C11_SameStateIdempotent ==
    \A p \in Stored, by \in Workers \cup {None}, f \in Faults \ {"commit"} :
        LET post == posts[p]
            once == transition_status(post, post, post.status, by, None,
                                      f # "log_write", TRUE)
            twice == transition_status(once.post, once.post, post.status, by, None,
                                       f # "log_write", TRUE)
        IN  post.status \in PostStatus =>
               /\ once.ret = "True"
               /\ once.post = post
               /\ Len(once.logs) <= 1
               /\ twice.ret = "True"
               /\ twice.post = once.post

\* a transition of a replied post to replied has returned True and written its
\* no-op record
C11_NoOpRecorded ==
    /\ last.op = "transition_status"
    /\ last.ret = "True"
    /\ last.post_id \in Stored
    /\ posts[last.post_id].status = "replied"
    /\ Len(last.logs) = 1
    /\ last.logs[1].old_status = "replied"
    /\ last.logs[1].new_status = "replied"

\* C12: a call of auto_expire or auto_unassign never raises, whatever the
\* database does: it returns True after moving the post (pending -> archived,
\* resp. assigned -> pending with the assignee cleared) and returns False,
\* with the post and the audit log unchanged, when the post is not in the
\* source state.
C12_AutoNeverRaises ==
    [][\A p \in PostIds :
          (last'.op \in {"auto_expire", "auto_unassign"} /\ last'.post_id = p) =>
             LET source == IF last'.op = "auto_expire" THEN "pending" ELSE "assigned"
                 moved  == IF last'.op = "auto_expire"
                           THEN [posts[p] EXCEPT !.status = "archived"]
                           ELSE [posts[p] EXCEPT !.status = "pending",
                                                 !.assigned_to = None]
             IN  /\ last'.ret \in {"True", "False"}
                 /\ last'.ret = "True" =>
                       (posts[p].status = source /\ posts'[p] = moved)
                 /\ last'.ret = "False" =>
                       /\ posts[p].status # source
                       /\ posts' = posts
                       /\ status_logs' = status_logs]_vars

(***************************************************************************)
(* Properties of the sweeps and the cleanup, checked under StoreSpec       *)
(***************************************************************************)
\* C13: one expire_old_pending_posts sweep archives the pending posts older
\* than now - expire_days (all of them when the database does not fail; the
\* ones whose commit goes through otherwise), each with the audit record
\* (pending -> archived, 'system', 'auto_expire') unless its log write failed,
\* returns the number it archived, and leaves every other post untouched.
C13_ExpireSweep ==
    [][\A log_fails, commit_fails \in SUBSET PostIds :
          (/\ last'.op = "expire_old_pending_posts"
           /\ ExpireOldPendingPosts(log_fails, commit_fails)) =>
             LET archived == Expirable \ commit_fails IN
             /\ last'.count = Cardinality(archived)
             /\ \A p \in archived :
                   /\ posts'[p] = [posts[p] EXCEPT !.status = "archived"]
                   /\ p \notin log_fails =>
                         /\ status_logs'[posts[p].id] = status_logs[posts[p].id] + 1
                         /\ \E i \in 1..Len(last'.logs) :
                               last'.logs[i] = [post_id |-> posts[p].id,
                                                old_status |-> "pending",
                                                new_status |-> "archived",
                                                changed_by |-> "system",
                                                change_reason |-> "auto_expire"]
             /\ \A p \in PostIds \ archived : posts'[p] = posts[p]
             /\ \A i \in 1..MaxRowId :
                   (\A p \in archived : posts[p].id # i) =>
                       status_logs'[i] = status_logs[i]]_vars

\* scenario D: a sweep has archived the one old pending post and has left the
\* younger pending post alone
C13_OldArchivedYoungKept ==
    /\ last.op = "expire_old_pending_posts"
    /\ last.count = 1
    /\ Len(last.logs) = 1
    /\ \E p, q \in Stored :
          /\ posts[p].status = "archived"
          /\ posts[p].id = last.logs[1].post_id
          /\ posts[p].fetched_at < now - ExpireDays
          /\ posts[q].status = "pending"
          /\ posts[q].fetched_at >= now - ExpireDays

(***************************************************************************)
(* Properties of ActionValidator, checked under Spec                       *)
(***************************************************************************)
\* the actions the documentation lists per status
DocumentedActions(status) ==
    CASE status = "pending"  -> {"view", "assign_to_worker", "auto_expire"}
      [] status = "assigned" -> {"view", "reply", "auto_unassign"}
      [] status = "replied"  -> {"view", "archive", "internal_note"}
      [] status = "archived" -> {"view"}
      [] status = "fetched"  -> {"view"}
      [] OTHER -> {}

\* C14 as stated: validate_action accepts exactly the listed (status, action)
\* pairs, and rejects every other pair with an exception that names the
\* action and lists the allowed set.
C14_AcceptsExactlyListed ==
    \A p \in Stored, a \in PostAction, u \in Workers \cup {None} :
        LET post == posts[p]
            e    == ActionException_message(post, a, u)
        IN  /\ validate_action(post, a, u) <=> a \in DocumentedActions(post.status)
            /\ a \notin DocumentedActions(post.status) =>
                  (e.action = a /\ e.allowed = DocumentedActions(post.status))

\* C14: validate_action rejects every (status, action) pair outside the list
\* with an exception that names the action and lists the allowed set; a listed
\* pair it accepts, except reply by a user who is not the assignee and
\* assign_to_worker on a post that has another assignee.
C14_ListedAndOwned ==
    \A p \in Stored, a \in PostAction, u \in Workers \cup {None} :
        LET post == posts[p]
            e    == ActionException_message(post, a, u)
        IN  IF a \in DocumentedActions(post.status)
            THEN validate_action(post, a, u) <=>
                    /\ a = "reply" => post.assigned_to = u
                    /\ a = "assign_to_worker" =>
                          (post.assigned_to = None \/ post.assigned_to = u)
            ELSE /\ ~validate_action(post, a, u)
                 /\ e.action = a
                 /\ e.allowed = DocumentedActions(post.status)

\* the reply of a worker to a post assigned to the other worker has been
\* refused
C14_ReplyOfOtherRefused ==
    /\ last.op = "validate_action:reply"
    /\ last.ret = "ActionException"
    /\ last.post_id \in Stored
    /\ posts[last.post_id].status = "assigned"
    /\ last.user \in Workers
    /\ posts[last.post_id].assigned_to \in Workers \ {last.user}

(***************************************************************************)
(* Properties of Deduplicator, checked under DedupSpec                     *)
(***************************************************************************)
\* a key that is present: neither None nor the empty string
NonEmpty(key) == key \notin {None, ""}

\* the post carries a key of the known sets
Known(post) ==
    \/ NonEmpty(post.post_id) /\ post.post_id \in existing_post_ids
    \/ NonEmpty(post.permalink) /\ post.permalink \in existing_permalinks

\* two posts carry the same post_id or the same permalink
Shares(p, q) ==
    \/ NonEmpty(p.post_id) /\ p.post_id = q.post_id
    \/ NonEmpty(p.permalink) /\ p.permalink = q.permalink

\* C15: for every batch and every pair of known-key sets, the list that
\* filter_duplicates returns has no two items with the same non-empty post_id
\* or the same non-empty permalink, and no item with a non-empty post_id of
\* the known ids or a non-empty permalink of the known permalinks.
C15_NoSharedOrKnownKey ==
    \A r \in DOMAIN unique_posts :
        LET out == unique_posts[r] IN
        /\ \A i, j \in DOMAIN out : i # j => ~Shares(out[i], out[j])
        /\ \A i \in DOMAIN out : ~Known(out[i])

\* a batch of three has lost a post of a known permalink and a post that
\* repeats the permalink of the one kept
C15_KnownAndRepeatedDropped ==
    /\ Len(batch) = 3
    /\ unique_posts = <<(<<batch[1]>>)>>
    /\ ~Known(batch[1])
    /\ batch[2].permalink \in existing_permalinks
    /\ batch[2].post_id \notin existing_post_ids
    /\ batch[3].post_id # batch[1].post_id
    /\ batch[3].permalink = batch[1].permalink

\* the positions a first-occurrence-wins run keeps: a post is kept when it is
\* not known and shares no key with a post kept before it
FirstKept(post_list) ==
    CHOOSE K \in SUBSET DOMAIN post_list :
        \A i \in DOMAIN post_list :
            i \in K <=> /\ ~Known(post_list[i])
                        /\ \A j \in K : j < i => ~Shares(post_list[j], post_list[i])

\* the positions of the posts that are not known and share no key with an
\* earlier post that is not known
FirstUnknown(post_list) ==
    {i \in DOMAIN post_list :
        /\ ~Known(post_list[i])
        /\ \A j \in DOMAIN post_list :
              (j < i /\ ~Known(post_list[j])) => ~Shares(post_list[j], post_list[i])}

\* the posts at the positions K, in input order
Select(post_list, K) ==
    LET n == Cardinality(K)
        at == CHOOSE f \in [1..n -> K] : \A a, b \in 1..n : a < b => f[a] < f[b]
    IN  [k \in 1..n |-> post_list[at[k]]]

Keyless(post) == ~NonEmpty(post.post_id) /\ ~NonEmpty(post.permalink)

KeylessCount(post_list) ==
    Cardinality({i \in DOMAIN post_list : Keyless(post_list[i])})

\* C16 as stated: filter_duplicates returns the posts that are the first
\* not-already-known occurrence of each of their keys, in input order.
C16_FirstUnknownOccurrenceKept ==
    [][(unique_posts = NotCalled /\ unique_posts' # NotCalled) =>
          unique_posts' = <<Select(batch, FirstUnknown(batch))>>]_vars

\* C16: filter_duplicates returns, in input order, the posts that are not
\* known and share no key with a post kept before them; it keeps every post
\* that has neither a post_id nor a permalink; and it leaves the known-key
\* sets as they were.
C16_FirstKeptWins ==
    [][(unique_posts = NotCalled /\ unique_posts' # NotCalled) =>
          /\ unique_posts' = <<Select(batch, FirstKept(batch))>>
          /\ KeylessCount(unique_posts'[1]) = KeylessCount(batch)
          /\ existing_post_ids' = existing_post_ids
          /\ existing_permalinks' = existing_permalinks]_vars

\* a post that shares a key with the first is dropped, and the post after it,
\* which shares a key with the dropped one only, is kept
C16_DroppedPostDoesNotCount ==
    /\ Len(batch) = 3
    /\ Shares(batch[1], batch[2])
    /\ ~Shares(batch[1], batch[3])
    /\ Shares(batch[2], batch[3])
    /\ unique_posts = <<(<<batch[1], batch[3]>>)>>

(***************************************************************************)
(* Properties of SetKeywordMatcher, checked under MatchSpec                *)
(***************************************************************************)
\* keyword occurs in text as a run of consecutive characters
IsSubstring(keyword, text) ==
    \E i \in 0..Len(text) :
        /\ i + Len(keyword) <= Len(text)
        /\ \A k \in 1..Len(keyword) : text[i + k] = keyword[k]

\* the keywords of a set that occur in the lower-cased text
Occurring(keyword_set, text) ==
    {keyword \in keyword_set : IsSubstring(keyword, str_lower(text))}

\* the last call of match() has returned, it read both keyword sets from one
\* load, and the matcher still holds that load
ReturnedOnHeldLoad ==
    /\ match_pc = "idle"
    /\ match_result.returned
    /\ match_result.primary_load = match_result.secondary_load
    /\ primary_keywords.load = match_result.primary_load
    /\ secondary_keywords.load = match_result.secondary_load

\* C17: for every text and every loaded keyword sets, match returns as
\* matched_primary the loaded primary keywords that are substrings of the
\* lower-cased text, as matched_secondary the same of the secondary keywords,
\* and matched = true exactly when both are non-empty; and so does a call of
\* match() that read both sets from the load the matcher holds.
C17_MatchRule ==
    /\ \A text \in Strings(MaxText) :
          LET r == match(text) IN
          /\ r.matched_primary = Occurring(primary_keywords.words, text)
          /\ r.matched_secondary = Occurring(secondary_keywords.words, text)
          /\ r.matched <=> (r.matched_primary # {} /\ r.matched_secondary # {})
    /\ ReturnedOnHeldLoad =>
          /\ match_result.matched_primary =
                Occurring(primary_keywords.words, match_text)
          /\ match_result.matched_secondary =
                Occurring(secondary_keywords.words, match_text)
          /\ match_result.matched <=> (/\ match_result.matched_primary # {}
                                       /\ match_result.matched_secondary # {})

\* match('Ab') has returned matched, with the primary keywords 'a' and 'ab'
\* and the secondary keyword 'b'
C17_MatchedInAnyCase ==
    /\ ReturnedOnHeldLoad
    /\ match_text = <<"A", "b">>
    /\ match_result.matched
    /\ match_result.matched_primary = {<<"a">>, <<"a", "b">>}
    /\ match_result.matched_secondary = {<<"b">>}

\* C19: under every interleaving of reload() and match(), the primary set and
\* the secondary set that a call of match() evaluates the text against are
\* the pair of one load: the pair of the load its primary set came from or
\* the pair of the load its secondary set came from.
C19_NoTornPair ==
    match_result.returned =>
        LET pair == [primary   |-> match_result.primary_load.primary,
                     secondary |-> match_result.secondary_load.secondary]
        IN  pair \in {match_result.primary_load, match_result.secondary_load}

(***************************************************************************)
(* Properties of KeywordFilter, checked under FilterSpec                   *)
(***************************************************************************)
\* C18: when no primary keyword or no secondary keyword is loaded,
\* filter_posts accepts all posts: it returns its input unchanged.
C18_AcceptsAllWithoutEitherClass ==
    \A r \in DOMAIN filtered :
        (primary_keywords.words = {} \/ secondary_keywords.words = {}) =>
            filtered[r] = filter_input

(***************************************************************************)
(* Properties of PostRepository.delete_oldest_posts, checked under         *)
(* CleanupSpec                                                             *)
(***************************************************************************)
\* C20: delete_oldest_posts(max) removes stored posts only and leaves the
\* others as they were; with a count of at most max it deletes nothing and
\* returns 0; with a larger count, when the count query, every deletion and
\* the commit succeed, the store holds at most max posts afterwards and the
\* posts removed are the oldest; and in every case, a failed deletion or a
\* failed commit included, the number returned is the number of posts
\* removed from the store.  (Every other call replaces the record of the
\* last call, and the clock leaves it: a step that ends with the record of a
\* cleanup and does not move the clock is a cleanup.)
C20_CleanupCount ==
    [][(last'.op = "delete_oldest_posts" /\ now' = now) =>
          LET max_posts    == last'.args[1]
              count_ok     == last'.args[2]
              delete_fails == last'.args[3]
              commit_ok    == last'.args[4]
              removed      == Stored \ Stored'
          IN  /\ Stored' \subseteq Stored
              /\ \A p \in Stored' : posts'[p] = posts[p]
              /\ last'.count = Cardinality(removed)
              /\ Cardinality(Stored) <= max_posts =>
                    (removed = {} /\ last'.count = 0)
              /\ (/\ Cardinality(Stored) > max_posts
                  /\ count_ok /\ commit_ok /\ delete_fails = {}) =>
                    /\ Cardinality(Stored') <= max_posts
                    /\ \A d \in removed : \A k \in Stored' :
                          posts[d].fetched_at <= posts[k].fetched_at]_vars

\* a cleanup has removed one of two posts and returned 1, and the post left
\* is the younger one
C20_OldestRemoved ==
    /\ last.op = "delete_oldest_posts"
    /\ last.count = 1
    /\ Cardinality(Stored) = 1
    /\ \E p \in Stored : posts[p].id = 2 /\ posts[p].fetched_at > 1

\* C21: when the count is above max and the count query, every deletion and
\* the commit succeed, delete_oldest_posts removes exactly count - max posts,
\* every removed post has a fetch timestamp at most that of every surviving
\* post, and this holds for the posts of every lifecycle status: the rows
\* deleted are taken by fetch timestamp alone.
C21_OldestFirstEviction ==
    [][(last'.op = "delete_oldest_posts" /\ now' = now) =>
          LET max_posts    == last'.args[1]
              count_ok     == last'.args[2]
              delete_fails == last'.args[3]
              commit_ok    == last'.args[4]
              removed      == Stored \ Stored'
          IN  (/\ Cardinality(Stored) > max_posts
               /\ count_ok /\ commit_ok /\ delete_fails = {}) =>
                  /\ Cardinality(removed) = Cardinality(Stored) - max_posts
                  /\ last'.count = Cardinality(Stored) - max_posts
                  /\ last'.rows = {posts[d] : d \in removed}
                  /\ \A d \in removed : \A k \in Stored \ removed :
                        /\ posts[d].fetched_at <= posts[k].fetched_at
                        /\ posts'[k] = posts[k]]_vars

\* an assigned post has been evicted while a younger pending post stays
C21_AssignedEvicted ==
    /\ last.op = "delete_oldest_posts"
    /\ last.count = 1
    /\ \E row \in last.rows : \E k \in Stored :
          /\ row.status = "assigned"
          /\ posts[k].status = "pending"
          /\ row.fetched_at < posts[k].fetched_at

(***************************************************************************)
(* Properties of CrawlerPipeline.run, checked under PipelineSpec           *)
(***************************************************************************)
\* a run has returned to _run_crawler_sync, which reports success
RunSucceeded == crawl.pc = "returned" /\ crawl.job.status = "success"

\* C22: every successful run returns a summary whose evicted count is the
\* number the cleanup stage of that run deleted, and the scheduler's success
\* result reports the same number, also when nothing was fetched; with
\* total_fetched the size of the fetched batch, duplicates_skipped the
\* fetched minus the posts surviving dedup, and total_saved at most the posts
\* surviving dedup.  A summary without the entry is read as the scheduler
\* reads it, results.get('old_posts_deleted', 0).
C22_SummaryReportsEviction ==
    RunSucceeded =>
        LET results == crawl.results[1]
            surviving == IF unique_posts = NotCalled THEN 0
                         ELSE Len(unique_posts[1])
        IN  /\ dict_get(results, "old_posts_deleted", 0) = crawl.deleted_count
            /\ crawl.job.old_posts_deleted = crawl.deleted_count
            /\ results.total_fetched = Len(crawl.raw_posts)
            /\ results.duplicates_skipped = Len(crawl.raw_posts) - surviving
            /\ results.total_saved <= surviving

\* C23: a run in which the fetch of every configured subreddit failed makes
\* run() raise, which _run_crawler_sync turns into a result of status
\* 'failed'; such a run is never reported with status 'success'.
C23_AllSourcesFailedIsFailed ==
    (crawl.pc = "returned" /\ crawl.fetch_failed = Sources) =>
        /\ crawl.results = NotCalled
        /\ crawl.job.status = "failed"

\* the submissions of the subreddits from SUBREDDITS[i] on whose fetch did
\* not fail, in the order of SUBREDDITS
RECURSIVE Remaining(_, _, _)
Remaining(listing, failed, i) ==
    IF i > Len(SUBREDDITS) THEN <<>>
    ELSE (IF i \in failed THEN <<>>
          ELSE [k \in 1..Len(listing[i]) |-> Submission(listing[i][k])])
         \o Remaining(listing, failed, i + 1)

\* the elements of a sequence
Range(seq) == {seq[i] : i \in 1..Len(seq)}

\* C24: a partial failure does not abort a run.  In every run that went past
\* the fetch, the batch is the submissions of the subreddits that did not
\* fail; a run in which the fetch of a subreddit or create_post of a post
\* raised still returns and is reported 'success'; every post of the
\* deduplicator's answer whose create_post did not raise is in the store;
\* and total_saved counts the posts of that answer but those whose
\* create_post raised.  (A post for which create_post answered IntegrityError
\* by returning the existing row did not raise and is counted.)
C24_PartialFailuresDoNotAbort ==
    /\ crawl.pc \in {"fetched", "persisting", "returned"} /\ crawl.listing # <<>> =>
          crawl.raw_posts = Remaining(crawl.listing, crawl.fetch_failed, 1)
    /\ (crawl.pc = "returned" /\ crawl.listing # <<>>) =>
          /\ crawl.job.status = "success"
          /\ crawl.results # NotCalled
          /\ unique_posts # NotCalled =>
                LET survived == unique_posts[1]
                IN  /\ \A i \in 1..Len(survived) :
                          \/ survived[i] \in Range(crawl.save_failed)
                          \/ Exists(survived[i].post_id)
                    /\ Range(crawl.save_failed) \subseteq Range(survived)
                    /\ crawl.results[1].total_saved =
                          Len(survived) - Len(crawl.save_failed)

\* a run returned 'success' although the fetch of one subreddit raised and
\* create_post raised for one of the two posts of the other: the other post
\* is stored and is the one post counted
C24_OneSourceAndOnePostFailed ==
    /\ RunSucceeded
    /\ Cardinality(crawl.fetch_failed) = 1
    /\ unique_posts # NotCalled
    /\ Len(unique_posts[1]) = 2
    /\ Len(crawl.save_failed) = 1
    /\ crawl.save_failed[1] = unique_posts[1][1]
    /\ Exists(unique_posts[1][2].post_id)
    /\ ~Exists(unique_posts[1][1].post_id)
    /\ crawl.results[1].total_saved = 1

\* C25: within a run the stages happen in order, each on the output of the
\* one before.  Posts leave the store only in the cleanup, which is the first
\* stage of a constructed pipeline; a fetch starts only when the cleanup has
\* returned; the deduplicator is handed the fetched batch, answers with
\* filter_duplicates of it against the known keys, and its answer is what
\* the persist stage is handed; every create_post is of the next post of
\* that answer, and a post enters the store only that way.
C25_StagesInOrder ==
    [][/\ (\E p \in PostIds : Exists(p) /\ posts'[p] = NoPost) =>
             crawl.pc = "constructed" /\ crawl'.pc = "cleaned"
       /\ crawl'.raw_posts # crawl.raw_posts /\ crawl'.raw_posts # <<>> =>
             /\ crawl.pc = "cleaned"
             /\ last.op = "delete_oldest_posts"
             /\ crawl.deleted_count = last.count
             /\ unique_posts = NotCalled
       /\ unique_posts' # unique_posts /\ unique_posts' # NotCalled =>
             /\ crawl.pc = "fetched"
             /\ batch' = crawl.raw_posts
             /\ unique_posts' = <<filter_duplicates(crawl.raw_posts)>>
             /\ crawl'.to_save = unique_posts'[1]
             /\ UNCHANGED <<existing_post_ids, existing_permalinks, posts>>
       /\ crawl'.to_save # crawl.to_save /\ crawl.pc = "persisting" =>
             /\ unique_posts = unique_posts'
             /\ last'.op = "create_post"
             /\ Submission(last'.post_id) = Head(crawl.to_save)
             /\ \E k \in 1..Len(unique_posts[1]) :
                   /\ unique_posts[1][k] = Submission(last'.post_id)
                   /\ crawl'.to_save =
                         SubSeq(unique_posts[1], k + 1, Len(unique_posts[1]))
       /\ (\E p \in PostIds : ~Exists(p) /\ posts'[p] # NoPost) =>
             /\ crawl.pc = "persisting"
             /\ last'.op = "create_post"
             /\ ~Exists(last'.post_id) /\ posts'[last'.post_id] # NoPost
             /\ Submission(last'.post_id) \in Range(unique_posts[1])]_vars

\* a run went through the four stages: its cleanup evicted a post, two
\* submissions were fetched, the deduplicator dropped one, the other was
\* created
C25_AllStagesActed ==
    /\ RunSucceeded
    /\ crawl.deleted_count = 1
    /\ Len(crawl.raw_posts) = 2
    /\ unique_posts # NotCalled
    /\ Len(unique_posts[1]) = 1
    /\ crawl.saved_posts = <<"created">>
    /\ Exists(unique_posts[1][1].post_id)

\* C28: whenever a run has completed whose cleanup met no failure, the store
\* holds at most DB_MAX_POSTS posts, whatever the number of posts the run
\* saved.
C28_StoreCappedAfterRun ==
    (RunSucceeded /\ crawl.cleanup_faultless) =>
        Cardinality(Stored) <= DB_MAX_POSTS

\* C29: on a started scheduler with no call of _run_crawler_sync in flight and
\* the interval trigger not due, the time get_next_run_time reports is the
\* time at which the interval trigger fires next, whatever scheduled runs,
\* manual runs and skipped triggers came before.
C29_ReportedNextRunIsActual ==
    (/\ scheduler_running
     /\ \A t \in Threads : pc[t] = "idle"
     /\ trigger_time > now) =>
        next_run_time = trigger_time

(***************************************************************************)
(* Properties of shutdown() and of the three jobs, checked under           *)
(* ShutdownSpec and JobsSpec                                               *)
(***************************************************************************)
\* C26: shutdown(wait=True) stops the scheduler while a pipeline is being
\* executed only when its wait of 300 seconds has elapsed, and once it has
\* returned, and until the scheduler is started again, no trigger, scheduled
\* or manual, starts an execution of _run_crawler_sync that goes on to run
\* the pipeline.
C26_ShutdownWaitsThenRejects ==
    [][/\ (scheduler_running /\ ~scheduler_running') =>
             \/ \A t \in Threads : pc[t] # "started"
             \/ shutdown.timed_out
       /\ (shutdown.pc = "returned" /\ ~scheduler_running) =>
             \A t \in Threads : pc[t] = "idle" => pc'[t] # "locked"]_vars

\* C27: the crawl job and the two housekeeping jobs are independent: a
\* housekeeping job that is due while _run_crawler_sync executes is started,
\* not kept waiting for it to end; and no job runs two instances of itself
\* (a housekeeping job has one state, the crawl job one holder of its lock).
C27_SweepsIndependentOfPipeline ==
    /\ \A j \in SweepJobs :
          sweeps[j].state = "queued" => pc[SchedThread] \notin InFlight
    /\ Cardinality(Running) <= 1

C30_ReplyOnlyToOwnAssignedPost ==
    [][\A p \in PostIds :
          (/\ last'.op \in {"reply_to_post", "PostCommentView.post"}
           /\ last'.post_id = p
           /\ last'.count = 1
           /\ last'.ret = "200"
           /\ last' # last)
              => /\ posts[p].status = "assigned"
                 /\ posts[p].assigned_to = last'.user]_vars

\* the endpoints that change a post's status, with the status they move it to
EndpointTarget(op) ==
    IF op = "assign_post_route" THEN "assigned" ELSE "replied"

\* C33: no endpoint reports success for a request whose status change did not
\* take place: whenever the assign route, the reply route or the comment view
\* answers 200, the post has moved in this request from the source status of
\* the transition to its target status; a request that meets an invalid
\* transition or a blocked action, or whose commit fails, is answered with an
\* error.
C33_SuccessMeansStatusChanged ==
    [][\A p \in PostIds :
          (/\ last'.op \in {"assign_post_route", "reply_to_post",
                            "PostCommentView.post"}
           /\ last'.post_id = p
           /\ last'.ret = "200"
           /\ last' # last)
              => /\ posts'[p].status = EndpointTarget(last'.op)
                 /\ posts[p].status # posts'[p].status]_vars

(***************************************************************************)
(* Properties of the sweeps' age conditions, checked under UnassignSpec    *)
(***************************************************************************)
\* C31: a post is auto-unassigned only after it has been assigned for at
\* least UnassignHours: a post a worker has just been assigned, and so
\* assigned for less than UnassignHours, is not among the posts the
\* auto-unassign sweep takes back to pending, however long ago it was fetched.
C31_UnassignOnlyAfterAssignedAge ==
    [][\A p \in PostIds :
          (/\ Exists(p)
           /\ posts[p].status = "pending"
           /\ posts'[p].status = "assigned")
              => p \notin old_assigned_posts']_vars

(***************************************************************************)
(* Properties of the sweeps' loops, checked under StoreSpec                *)
(***************************************************************************)
\* the status a sweep moves its rows to
SweepTarget(op) ==
    IF op = "expire_old_pending_posts" THEN "archived" ELSE "pending"

FailedAttempt(ret) ==
    ret \in {"LifecycleException", "False", "StorageException", "existing"}

\* C35: after every lifecycle operation (create, assign_post, mark_replied,
\* archive_post, auto_expire, auto_unassign), under any fault of the
\* database, an assigned post has an assignee and a fetched or pending post
\* has none; and an attempt that fails, for the post's status or for a
\* failed commit, leaves the row, its assignee included, as it was.
C35_AssigneeConsistent ==
    [][/\ \A p \in PostIds :
             /\ posts'[p].status = "assigned" => posts'[p].assigned_to \in Workers
             /\ posts'[p].status \in {"fetched", "pending"} =>
                   posts'[p].assigned_to = None
       /\ FailedAttempt(last'.ret) => posts' = posts]_vars

\* a post that was assigned is pending again, without an assignee, after
\* auto_unassign, and an assign of it has failed on its commit
C35_UnassignedThenAssignFailed ==
    \E p \in PostIds :
       /\ posts[p].status = "pending"
       /\ posts[p].assigned_to = None
       /\ transitions_ok[posts[p].id] = 3
       /\ last.op = "assign_post"
       /\ last.post_id = p
       /\ last.ret = "LifecycleException"

(***************************************************************************)
(* The two guard layers side by side, checked under LifecycleSpec          *)
(***************************************************************************)
\* the lifecycle operation behind each state-changing action of the validator
ActionOf(op) ==
    CASE op = "assign_post"   -> "assign_to_worker"
      [] op = "mark_replied"  -> "reply"
      [] op = "archive_post"  -> "archive"
      [] op = "auto_expire"   -> "auto_expire"
      [] op = "auto_unassign" -> "auto_unassign"
      [] OTHER -> None

\* the status each state-changing action moves a post to
ActionTarget(action) ==
    CASE action = "assign_to_worker" -> "assigned"
      [] action = "reply"            -> "replied"
      [] action = "archive"          -> "archived"
      [] action = "auto_expire"      -> "archived"
      [] action = "auto_unassign"    -> "pending"
      [] OTHER -> None

StateChanging ==
    {"assign_to_worker", "reply", "archive", "auto_expire", "auto_unassign"}

\* C39: the two guard layers agree: every state-changing action
\* ActionValidator allows in a status is a transition the lifecycle table
\* accepts from that status, and every lifecycle operation (assign_post,
\* mark_replied, archive_post, auto_expire, auto_unassign) that succeeds on a
\* post is an action the validator allows in the status the post had.
C39_GuardLayersAgree ==
    [][/\ \A s \in PostStatus :
             \A a \in ALLOWED_ACTIONS(s) \cap StateChanging :
                 ActionTarget(a) \in VALID_TRANSITIONS[s]
       /\ \A p \in PostIds :
             (/\ ActionOf(last'.op) # None
              /\ last'.post_id = p
              /\ last'.ret = "True"
              /\ posts'[p].status # posts[p].status)
                 => ActionOf(last'.op) \in ALLOWED_ACTIONS(posts[p].status)]_vars

(***************************************************************************)
(* Properties of concurrent callers, checked under SessionsSpec            *)
(***************************************************************************)
\* C36: of the workers who call assign on one pending post at the same time,
\* each in its own session, at most one is told it owns the post: a call
\* reports success only when its commit moves the post, pending until then,
\* to assigned with the caller as the assignee.
C36_OneAssignWins ==
    [][\A w \in Workers :
          (/\ sessions[w].pc = "queried"
           /\ sessions[w].op = "PostRepository.assign_post"
           /\ sessions'[w].pc = "done"
           /\ sessions'[w].ret = "True")
              => LET p == sessions[w].post_id
                 IN  /\ posts[p].status = "pending"
                     /\ posts'[p].status = "assigned"
                     /\ posts'[p].assigned_to = w]_vars

\* C37: a sweep that runs while a worker assigns a post or marks it replied
\* acts on the committed status of the post, not on the status it read when
\* it selected the post: every change a sweep commits to the status of a post
\* follows the valid-transition table from the status committed until then
\* (a post a worker has just assigned is not archived by the auto-expire
\* that selected it while it was pending).
C37_SweepActsOnCommittedStatus ==
    [][\A p \in PostIds :
          (/\ sessions[Sweeper].pc = "item"
           /\ sessions'[Sweeper].pc = "loop"
           /\ posts'[p].status # posts[p].status)
              => posts'[p].status \in VALID_TRANSITIONS[posts[p].status]]_vars

(***************************************************************************)
(* Properties of a failed reload, checked under ReloadSpec                 *)
(***************************************************************************)
\* the reload in progress has read less than the table holds: a query of
\* the repository has failed
ReadFailed ==
    /\ reload_pc # "idle"
    /\ keywords # get_all_keywords(TRUE, TRUE)

\* C40: a reload() that fails to read the keywords from the backing store
\* keeps the keyword sets loaded before: through every step of such a reload
\* match() and get_keyword_count() return what they returned before it.
C40_FailedReloadKeepsKeywords ==
    [][ReadFailed =>
          /\ get_keyword_count' = get_keyword_count
          /\ \A text \in Strings(MaxText) : match(text)' = match(text)]_vars

====
